---- MODULE Spec2Model ----
(***************************************************************************)
(* Real-time messaging and bot-activity core of the social-media backend:  *)
(* the ConnectionManager registry (app/core/websocket.py), the WebSocket   *)
(* frame loop (app/routes/websocket.py) and the bot service                *)
(* (app/services/bot_service.py, app/core/scheduler.py).                   *)
(*                                                                         *)
(* Coroutines are interleaved at their suspension points: one step of a    *)
(* handler or task runs from the point where it resumes to its next        *)
(* `await connection.send_text(...)`, `await websocket.receive_text()` or  *)
(* `await loop.run_in_executor(...)`.                                      *)
(***************************************************************************)
EXTENDS Integers, Sequences, FiniteSets, TLC

\* ------------------------------------------------------------------ bounds
MaxMsgs == 3        \* rows of the messages table
MaxTasks == 2       \* trigger_bot_response tasks created in one behaviour
MaxTime == 86400    \* last clock value explored (seconds)
MaxActs == 2        \* rows of the bot_activities table
MaxDropMsgs == 1    \* human messages sent while peers may drop
MaxPosts == 1       \* human messages written before the bots answer
MaxReplies == 2     \* events a handler sends on its own socket
MaxCalls == 2       \* requests that call get_or_create_direct_conversation
MaxSignals == 2     \* typing frames processed in one behaviour
MaxWords == 4       \* words of an inbound text
MaxInbound == 2     \* human messages written while two bots answer
MaxRuns == 2        \* direct calls of respond_to_messages

\* --------------------------------------------------------------- universe
Humans == {"u1", "u2"}
BotUsers == {"b1", "b2"}
Users == Humans \cup BotUsers
Conns == {"c1", "c2", "c3"}
Convs == {"k1", "k2"}
None == "none"
NoTime == -1
DayLen == 86400
TickLen == 30
StartTime == 86340

Requests == 1..MaxCalls

\* str(ValueError) of create_message and mark_messages_as_read
NotParticipant == "User is not a participant of this conversation"

\* websocket.send_json({"type": "error", "message": text})
ErrorEvent(text) == [type |-> "error", message |-> text, code |-> 0]

\* websocket.send_json({"type": "pong"})
Pong == [type |-> "pong", message |-> "", code |-> 0]

\* the frame loop goes on to the next frame without sending anything
NoAnswer == [type |-> "none", message |-> "", code |-> 0]

\* websocket.close(code, reason)
CloseFrame(code, reason) == [type |-> "close", message |-> reason, code |-> code]

\* the text of an inbound frame: `json` is "object" for a JSON object,
\* "not_json" for text json.loads rejects, "not_object" for any other JSON
\* value; the other fields are message_data.get(...) with None for absent
Frame(json, type, conversation_id, content) ==
    [json |-> json, type |-> type, conversation_id |-> conversation_id,
     content |-> content]

\* no frame: the connection was answered before the frame loop
NoFrame == Frame("none", None, None, "")

\* the user a connection's token authenticates as
ConnUser(c) == IF c = "c3" THEN "u2" ELSE "u1"

\* users.is_bot
IsBot(u) == u \in BotUsers

VARIABLES
    active_connections,  \* ConnectionManager.active_connections, in key order
    online_users,        \* ConnectionManager.online_users
    transport,           \* per connection: "none", "up", or "down" (peer gone)
    pc,                  \* per connection: position of websocket_endpoint
    jobs,                \* per coroutine: the broadcast it is suspended in
    locals,              \* per connection: conversation_id, participant_ids, new_message
    tasks,               \* trigger_bot_response tasks, in creation order
    log,                 \* per connection: ids of the message events it received
    participants,        \* conversation_participants rows, per conversation
    messages,            \* messages table, id = index
    bots,                \* bots table, keyed by user_id
    activities,          \* bot_activities table
    now,                 \* wall clock, seconds
    replies,             \* per connection: what the handler sent on its own socket
    sweep,               \* position of trigger_bot_activities
    conversations,       \* conversations table, keyed by id
    calls,               \* per request: position of get_or_create_direct_conversation
    typing_users,        \* ConnectionManager.typing_users
    signals,             \* typing frames processed so far
    generated,           \* a call of _generate_message_response: arguments and result
    respond,             \* respond_to_messages: calls so far, last bot and result
    manual               \* position of a trigger_all_active_bots request

regVars == <<active_connections, online_users, jobs, log>>
dbVars == <<participants, messages, bots, activities>>
svcVars == <<sweep, conversations, calls>>
auxVars == <<typing_users, signals, generated, respond, manual>>
vars == <<active_connections, online_users, transport, pc, jobs, locals, tasks,
          log, participants, messages, bots, activities, now, replies, sweep,
          conversations, calls, typing_users, signals,
          generated, respond, manual>>

\* ---------------------------------------------------------------- helpers
RemoveAt(s, i) == SubSeq(s, 1, i - 1) \o SubSeq(s, i + 1, Len(s))

InSeq(s, x) == \E i \in 1..Len(s) : s[i] = x

\* list.remove(x): drops the first occurrence
RemoveFirst(s, x) ==
    IF InSeq(s, x)
    THEN RemoveAt(s, CHOOSE i \in 1..Len(s) : s[i] = x /\ \A j \in 1..(i - 1) : s[j] # x)
    ELSE s

SeqSet(s) == {s[i] : i \in 1..Len(s)}

RECURSIVE FilterActive(_)
FilterActive(rows) ==
    IF rows = <<>> THEN <<>>
    ELSE IF Head(rows).is_active
         THEN <<Head(rows).user_id>> \o FilterActive(Tail(rows))
         ELSE FilterActive(Tail(rows))

\* ------------------------------------------------- ConnectionManager state
HasKey(ac, u) == \E i \in 1..Len(ac) : ac[i].user = u
KeyIdx(ac, u) == CHOOSE i \in 1..Len(ac) : ac[i].user = u
ConnsOf(ac, u) == IF HasKey(ac, u) THEN ac[KeyIdx(ac, u)].conns ELSE <<>>
Keys(ac) == [i \in 1..Len(ac) |-> ac[i].user]

is_user_online(u) == u \in online_users

NoJob == [phase |-> "none"]

\* the key of task number t among the coroutines
TaskKey(t) == ToString(t)

Running(j) == j.phase = "run"

\* history kept with a running broadcast: `sentTo` and `failed` hold the
\* connections whose send_text returned and raised, `stable` holds the
\* connections registered since the broadcast started; `c` leaves the registry
Unstable(js, c) ==
    [a \in DOMAIN js |->
        IF Running(js[a]) THEN [js[a] EXCEPT !.stable = @ \ {c}] ELSE js[a]]

\* the list object of `u` became empty and was dropped from the dict: every
\* iterator still positioned on it is exhausted
MarkStale(js, u) ==
    [a \in DOMAIN js |->
        IF Running(js[a]) /\ js[a].inUser /\ js[a].targets[js[a].ui] = u
        THEN [js[a] EXCEPT !.stale = TRUE] ELSE js[a]]

\* ConnectionManager.connect, lines 26-30
RegConnect(W, c, u) ==
    LET ac1 == IF HasKey(W.ac, u) THEN W.ac
               ELSE Append(W.ac, [user |-> u, conns |-> <<>>])
        i == KeyIdx(ac1, u)
    IN [W EXCEPT !.ac = [ac1 EXCEPT ![i].conns = Append(@, c)],
                 !.on = @ \cup {u}]

\* disconnect that forgets online_users.discard(user_id)
RegDisconnectKeepOnline(W, c, u) ==
    IF ~HasKey(W.ac, u) THEN W
    ELSE LET i == KeyIdx(W.ac, u)
             l == RemoveFirst(W.ac[i].conns, c)
         IN IF l = <<>>
            THEN [W EXCEPT !.ac = RemoveAt(W.ac, i),
                           !.jobs = MarkStale(Unstable(@, c), u)]
            ELSE [W EXCEPT !.ac[i].conns = l,
                           !.jobs = Unstable(@, c)]

\* ConnectionManager.disconnect
RegDisconnect(W, c, u) ==
    IF ~HasKey(W.ac, u) THEN W
    ELSE LET i == KeyIdx(W.ac, u)
             l == RemoveFirst(W.ac[i].conns, c)
         IN IF l = <<>>
            THEN [W EXCEPT !.ac = RemoveAt(W.ac, i),
                           !.on = @ \ {u},
                           !.jobs = MarkStale(Unstable(@, c), u)]
            ELSE [W EXCEPT !.ac[i].conns = l,
                           !.jobs = Unstable(@, c)]

\* send_personal_message, lines 65-66
RECURSIVE PruneAll(_, _, _)
PruneAll(W, cs, u) ==
    IF cs = <<>> THEN W
    ELSE PruneAll(RegDisconnect(W, Head(cs), u), Tail(cs), u)

\* connection.send_text of a running broadcast `a` on `c`: the text reaches a
\* peer that is up, and raises on one that is gone
SendText(W, a, c) ==
    IF W.tr[c] = "up"
    THEN [W EXCEPT !.jobs[a].sentTo = @ \cup {c},
                   !.log[c] = IF W.jobs[a].ev.type = "message"
                              THEN Append(@, W.jobs[a].ev.id) ELSE @]
    ELSE [W EXCEPT !.jobs[a].disconnected = Append(@, c),
                   !.jobs[a].failed = @ \cup {c}]

\* send_to_conversation / broadcast_user_status with send_personal_message
\* inlined: coroutine `a` runs from where it resumed up to and including its
\* next send_text call, or to the end of the broadcast
RECURSIVE Run(_, _)
Run(W, a) ==
    LET j == W.jobs[a] IN
    IF j.inUser
    THEN LET u == j.targets[j.ui]
             l == IF j.stale THEN <<>> ELSE ConnsOf(W.ac, u)
         IN IF j.li < Len(l)
            THEN SendText([W EXCEPT !.jobs[a].li = @ + 1], a, l[j.li + 1])
            ELSE Run([PruneAll(W, j.disconnected, u)
                         EXCEPT !.jobs[a].inUser = FALSE,
                                !.jobs[a].disconnected = <<>>], a)
    ELSE IF j.ui >= Len(j.targets)
         THEN [W EXCEPT !.jobs[a].phase = "done"]
         ELSE LET u == j.targets[j.ui + 1] IN
              IF u = j.exclude \/ ~HasKey(W.ac, u)
              THEN Run([W EXCEPT !.jobs[a].ui = @ + 1], a)
              ELSE Run([W EXCEPT !.jobs[a].ui = @ + 1,
                                 !.jobs[a].inUser = TRUE,
                                 !.jobs[a].li = 0,
                                 !.jobs[a].stale = FALSE], a)

\* a broadcast of event `ev` to the users `targets`, about to start
NewJob(ac, ev, targets, exclude) ==
    [phase |-> "run", ev |-> ev, targets |-> targets, exclude |-> exclude,
     ui |-> 0, li |-> 0, inUser |-> FALSE, stale |-> FALSE,
     disconnected |-> <<>>, sentTo |-> {}, failed |-> {},
     stable |-> UNION {SeqSet(ac[i].conns) : i \in 1..Len(ac)}]

World ==
    [ac |-> active_connections, on |-> online_users, jobs |-> jobs, log |-> log,
     tr |-> transport]

\* broadcast_user_status, line 87: snapshot of the keys
StatusJob(ac, u, status) ==
    NewJob(ac, [type |-> "user_status", user |-> u, status |-> status], Keys(ac), None)

\* ------------------------------------------------------- persistence rows
\* conversation.participants filtered on is_active, websocket.py lines 96-99
ActiveParticipantIds(k) == FilterActive(participants[k])

\* the participant check without `is_active == True`
IsActiveParticipantAnyRow(k, u) ==
    /\ k \in DOMAIN participants
    /\ \E i \in 1..Len(participants[k]) : participants[k][i].user_id = u

\* create_message, lines 164-170: the sender's active participant row exists
IsActiveParticipant(k, u) ==
    /\ k \in DOMAIN participants
    /\ \E i \in 1..Len(participants[k]) :
          participants[k][i].user_id = u /\ participants[k][i].is_active

\* message_service.create_message, lines 174-179
HumanMessage(k, u) ==
    [conversation_id |-> k, sender_id |-> u, created_at |-> now,
     is_deleted |-> FALSE, via |-> "human", reply_to |-> 0]

\* ------------------------------------------------------------ bot service
\* BotService.should_bot_act
TodayStart(t) == t - (t % DayLen)

TodayActivities(b) ==
    Cardinality({i \in 1..Len(activities) :
                    /\ activities[i].bot_id = b
                    /\ activities[i].created_at >= TodayStart(now)})

\* should_bot_act that lets a bot at its cap act once more
should_bot_act_PastCap(b) ==
    IF TodayActivities(b) > bots[b].max_daily_activities THEN FALSE
    ELSE IF bots[b].last_activity_at # NoTime
            /\ now - bots[b].last_activity_at < bots[b].activity_frequency * 60
         THEN FALSE
         ELSE TRUE

should_bot_act(b) ==
    IF TodayActivities(b) >= bots[b].max_daily_activities THEN FALSE
    ELSE IF bots[b].last_activity_at # NoTime
            /\ now - bots[b].last_activity_at < bots[b].activity_frequency * 60
         THEN FALSE
         ELSE TRUE

\* the last participant row whose Bot is active and can message
RECURSIVE LastBot(_)
LastBot(rows) ==
    IF rows = <<>> THEN None
    ELSE LET r == rows[Len(rows)] IN
         IF /\ r.is_active /\ IsBot(r.user_id)
            /\ bots[r.user_id].is_active /\ bots[r.user_id].can_message
         THEN r.user_id
         ELSE LastBot(SubSeq(rows, 1, Len(rows) - 1))

\* trigger_immediate_bot_response, lines 646-654: the first participant row
\* whose Bot is active and can message
RECURSIVE FirstBot(_)
FirstBot(rows) ==
    IF rows = <<>> THEN None
    ELSE LET r == Head(rows) IN
         IF /\ r.is_active /\ IsBot(r.user_id)
            /\ bots[r.user_id].is_active /\ bots[r.user_id].can_message
         THEN r.user_id
         ELSE FirstBot(Tail(rows))

\* trigger_immediate_bot_response without the sender.is_bot test of line 629
ImmSelectAnySender(k, mid) ==
    IF mid \notin 1..Len(messages) THEN None
    ELSE IF k \notin DOMAIN participants THEN None
    ELSE FirstBot(participants[k])

\* trigger_immediate_bot_response, lines 625-654: the bot that will answer
\* message `mid` in conversation `k`, or None
ImmSelect(k, mid) ==
    IF mid \notin 1..Len(messages) \/ IsBot(messages[mid].sender_id) THEN None
    ELSE IF k \notin DOMAIN participants THEN None
    ELSE FirstBot(participants[k])

\* an immediate reply that also stamps last_activity_at
ImmBotUpdateStamped(bot) ==
    [bot EXCEPT !.total_messages = @ + 1, !.last_activity_at = now]

\* trigger_immediate_bot_response, lines 687-689
ImmBotUpdate(bot) == [bot EXCEPT !.total_messages = @ + 1]

\* respond_to_messages, lines 459-460
SchedBotUpdate(bot) ==
    [bot EXCEPT !.total_messages = @ + 1, !.last_activity_at = now]

BotMessage(k, b, via, mid) ==
    [conversation_id |-> k, sender_id |-> b, created_at |-> now,
     is_deleted |-> FALSE, via |-> via, reply_to |-> mid]

BotActivity(b, type) == [bot_id |-> b, created_at |-> now, activity_type |-> type]

\* trigger_immediate_bot_response up to the time.sleep of line 664, called
\* with (k, mid) by `h`
ImmCall(h, k, mid) ==
    LET b == ImmSelect(k, mid) IN
    [h |-> h, conv |-> k, mid |-> mid, bot |-> b, result |-> 0,
     phase |-> IF b = None THEN "returned" ELSE "sleeping"]

\* trigger_immediate_bot_response, lines 666-695, after the sleep
ImmFinish(t) ==
    /\ UNCHANGED <<replies, svcVars, auxVars>>
    /\ t \in 1..Len(tasks)
    /\ tasks[t].phase = "sleeping"
    /\ Len(messages) < MaxMsgs
    /\ messages' = Append(messages,
                          BotMessage(tasks[t].conv, tasks[t].bot, "immediate", tasks[t].mid))
    /\ activities' = Append(activities, BotActivity(tasks[t].bot, "message"))
    /\ bots' = [bots EXCEPT ![tasks[t].bot] = ImmBotUpdate(@)]
    /\ tasks' = [tasks EXCEPT ![t].phase = "returned", ![t].result = Len(messages) + 1]
    /\ UNCHANGED <<active_connections, online_users, transport, pc, jobs, locals,
                   log, participants, now>>

\* ------------------------------------------------------ websocket_endpoint
RECURSIVE SumLen(_, _)
SumLen(f, S) ==
    IF S = {} THEN 0
    ELSE LET x == CHOOSE y \in S : TRUE IN Len(f[x]) + SumLen(f, S \ {x})

\* frames answered on the sender's own socket so far, over all connections
ReplyCount == SumLen(replies, Conns)

\* the handler of `c` answered `frame` with `event` on its own socket, after
\* the message `new_message` of its last accepted "message" frame
Answer(c, frame, event) ==
    [replies EXCEPT ![c] =
        Append(@, [frame |-> frame, answer |-> event, seen |-> locals[c].new_message])]

Commit(W) ==
    /\ active_connections' = W.ac
    /\ online_users' = W.on
    /\ jobs' = W.jobs
    /\ log' = W.log

NewTask(c) ==
    [h |-> c, conv |-> None, mid |-> 0, bot |-> None, result |-> 0, phase |-> "created"]

\* a handler that awaits trigger_bot_response() instead of creating a task
HandlerNextAwaitsBot(c, W, kind) ==
    IF W.jobs[c].phase # "done"
    THEN pc' = [pc EXCEPT ![c] = kind] /\ UNCHANGED tasks
    ELSE CASE kind = "message" ->
                /\ pc' = [pc EXCEPT ![c] = "bot_response"]
                /\ tasks' = Append(tasks, NewTask(c))
           [] kind = "offline" ->
                pc' = [pc EXCEPT ![c] = "closed"] /\ UNCHANGED tasks
           [] OTHER ->
                pc' = [pc EXCEPT ![c] = "recv"] /\ UNCHANGED tasks

\* the handler of `c` after a step of its broadcast `kind`: still suspended
\* in it, or past it and on to its next await
HandlerNext(c, W, kind) ==
    IF W.jobs[c].phase # "done"
    THEN pc' = [pc EXCEPT ![c] = kind] /\ UNCHANGED tasks
    ELSE CASE kind = "message" ->
                \* line 173: asyncio.create_task(trigger_bot_response())
                /\ pc' = [pc EXCEPT ![c] = "recv"]
                /\ tasks' = Append(tasks, NewTask(c))
           [] kind = "offline" ->
                pc' = [pc EXCEPT ![c] = "closed"] /\ UNCHANGED tasks
           [] OTHER ->
                pc' = [pc EXCEPT ![c] = "recv"] /\ UNCHANGED tasks

\* lines 49-61 with a valid token, and ConnectionManager.connect
Connect(c) ==
    /\ UNCHANGED <<replies, svcVars, auxVars>>
    /\ pc[c] = "idle"
    /\ transport' = [transport EXCEPT ![c] = "up"]
    /\ LET u == ConnUser(c)
           W0 == RegConnect([World EXCEPT !.tr[c] = "up"], c, u)
           W1 == [W0 EXCEPT !.jobs[c] = StatusJob(W0.ac, u, "online")]
       IN \E W \in {Run(W1, c)} : Commit(W) /\ HandlerNext(c, W, "online")
    /\ UNCHANGED <<locals, participants, messages, bots, activities, now>>

\* the peer closes the socket or the network drops
ClientClose(c) ==
    /\ UNCHANGED <<replies, svcVars, auxVars>>
    /\ transport[c] = "up"
    /\ transport' = [transport EXCEPT ![c] = "down"]
    /\ UNCHANGED <<active_connections, online_users, pc, jobs, locals, tasks, log,
                   participants, messages, bots, activities, now>>

\* lines 270-274: receive_text raises WebSocketDisconnect
RecvDisconnect(c) ==
    /\ UNCHANGED <<replies, svcVars, auxVars>>
    /\ pc[c] = "recv"
    /\ transport[c] = "down"
    /\ LET u == ConnUser(c)
           W0 == RegDisconnect(World, c, u)
           W1 == [W0 EXCEPT !.jobs[c] = StatusJob(W0.ac, u, "offline")]
       IN \E W \in {Run(W1, c)} : Commit(W) /\ HandlerNext(c, W, "offline")
    /\ UNCHANGED <<transport, locals, participants, messages, bots, activities, now>>

\* lines 72-179: a "message" frame with conversation_id k and some content
FrameMessage(c, k) ==
    /\ UNCHANGED <<svcVars, auxVars>>
    /\ pc[c] = "recv"
    /\ transport[c] = "up"
    /\ LET u == ConnUser(c) IN
       IF ~IsActiveParticipant(k, u)
       THEN \* create_message raises ValueError, lines 175-179
            /\ ReplyCount < MaxReplies
            /\ locals' = [locals EXCEPT ![c].conversation_id = k]
            /\ replies' = Answer(c, Frame("object", "message", k, "text"),
                                 ErrorEvent(NotParticipant))
            /\ UNCHANGED <<active_connections, online_users, transport, pc, jobs,
                           tasks, log, participants, messages, bots, activities, now>>
       ELSE /\ Len(messages) < MaxMsgs
            /\ Len(tasks) < MaxTasks
            /\ messages' = Append(messages, HumanMessage(k, u))
            /\ locals' = [locals EXCEPT ![c].conversation_id = k,
                                        ![c].participant_ids = ActiveParticipantIds(k),
                                        ![c].new_message = Len(messages) + 1]
            /\ UNCHANGED replies
            /\ LET ev == [type |-> "message", id |-> Len(messages) + 1]
                   W1 == [World EXCEPT !.jobs[c] =
                             NewJob(active_connections, ev, ActiveParticipantIds(k), None)]
               IN \E W \in {Run(W1, c)} : Commit(W) /\ HandlerNext(c, W, "message")
            /\ UNCHANGED <<transport, participants, bots, activities, now>>

\* message_service.mark_messages_as_read, line 333
MarkRead(rows, u) ==
    [i \in 1..Len(rows) |->
        IF rows[i].user_id = u /\ rows[i].is_active
           /\ \A j \in 1..(i - 1) : ~(rows[j].user_id = u /\ rows[j].is_active)
        THEN [rows[i] EXCEPT !.last_read_at = now] ELSE rows[i]]

\* lines 204-246: a "read" frame with conversation_id k
FrameRead(c, k) ==
    /\ UNCHANGED <<svcVars, auxVars>>
    /\ pc[c] = "recv"
    /\ transport[c] = "up"
    /\ LET u == ConnUser(c) IN
       IF ~IsActiveParticipant(k, u)
       THEN \* mark_messages_as_read raises ValueError, lines 242-246
            /\ ReplyCount < MaxReplies
            /\ locals' = [locals EXCEPT ![c].conversation_id = k]
            /\ replies' = Answer(c, Frame("object", "read", k, ""),
                                 ErrorEvent(NotParticipant))
            /\ UNCHANGED <<active_connections, online_users, transport, pc, jobs,
                           tasks, log, participants, messages, bots, activities, now>>
       ELSE /\ participants' = [participants EXCEPT ![k] = MarkRead(@, u)]
            /\ locals' = [locals EXCEPT ![c].conversation_id = k,
                                        ![c].participant_ids = ActiveParticipantIds(k)]
            /\ UNCHANGED replies
            /\ LET ev == [type |-> "read_receipt", conv |-> k, user |-> u]
                   W1 == [World EXCEPT !.jobs[c] =
                             NewJob(active_connections, ev, ActiveParticipantIds(k), u)]
               IN \E W \in {Run(W1, c)} : Commit(W) /\ HandlerNext(c, W, "read")
            /\ UNCHANGED <<transport, messages, bots, activities, now>>

\* broadcast_typing_status, lines 92-100: the typing-state map after user u
\* signals is_typing for conversation k
TypingUpdate(tu, k, u, is_typing) ==
    IF is_typing
    THEN LET t1 == IF k \in DOMAIN tu THEN tu ELSE tu @@ (k :> {})
         IN [t1 EXCEPT ![k] = @ \cup {u}]
    ELSE IF k \in DOMAIN tu
         THEN LET t1 == [tu EXCEPT ![k] = @ \ {u}]
              IN IF t1[k] = {} THEN [j \in DOMAIN t1 \ {k} |-> t1[j]] ELSE t1
         ELSE tu

\* ConnectionManager.get_typing_users
get_typing_users(k) == IF k \in DOMAIN typing_users THEN typing_users[k] ELSE {}

\* lines 181-202: a "typing" frame with conversation_id k
FrameTyping(c, k, is_typing) ==
    /\ UNCHANGED <<replies, svcVars, generated, respond, manual>>
    /\ pc[c] = "recv"
    /\ transport[c] = "up"
    /\ signals < MaxSignals
    /\ signals' = signals + 1
    /\ LET u == ConnUser(c) IN
       IF k \notin DOMAIN conversations
       THEN \* line 194: no such conversation, nothing is sent
            /\ locals' = [locals EXCEPT ![c].conversation_id = k]
            /\ UNCHANGED <<active_connections, online_users, pc, jobs, tasks, log,
                           typing_users>>
       ELSE /\ locals' = [locals EXCEPT ![c].conversation_id = k,
                                        ![c].participant_ids = ActiveParticipantIds(k)]
            /\ typing_users' = TypingUpdate(typing_users, k, u, is_typing)
            /\ LET ev == [type |-> "typing", conv |-> k, user |-> u,
                          is_typing |-> is_typing]
                   W1 == [World EXCEPT !.jobs[c] =
                             NewJob(active_connections, ev, ActiveParticipantIds(k), u)]
               IN \E W \in {Run(W1, c)} : Commit(W) /\ HandlerNext(c, W, "typing")
    /\ UNCHANGED <<transport, participants, messages, bots, activities, now>>

\* the handler of `c` resumes from a send_text of its broadcast
HandlerSend(c) ==
    /\ UNCHANGED <<replies, svcVars, auxVars>>
    /\ pc[c] \in {"online", "message", "read", "typing", "offline"}
    /\ \E W \in {Run(World, c)} : Commit(W) /\ HandlerNext(c, W, pc[c])
    /\ UNCHANGED <<transport, locals, participants, messages, bots, activities, now>>

\* lines 129-139: the task's first step evaluates conversation_id and
\* new_message.id and hands trigger_immediate_bot_response to the executor
TaskStart(t) ==
    /\ UNCHANGED <<replies, svcVars, auxVars>>
    /\ t \in 1..Len(tasks)
    /\ tasks[t].phase = "created"
    /\ LET h == tasks[t].h IN
       tasks' = [tasks EXCEPT ![t] =
                    ImmCall(h, locals[h].conversation_id, locals[h].new_message)]
    /\ UNCHANGED <<active_connections, online_users, transport, pc, jobs, locals,
                   log, participants, messages, bots, activities, now>>

\* lines 141-165: the executor returned; a reply is broadcast to participant_ids
TaskResume(t) ==
    /\ UNCHANGED <<replies, svcVars, auxVars>>
    /\ t \in 1..Len(tasks)
    /\ tasks[t].phase = "returned"
    /\ tasks[t].h \in Conns
    /\ IF tasks[t].result = 0
       THEN /\ tasks' = [tasks EXCEPT ![t].phase = "done"]
            /\ UNCHANGED regVars
       ELSE LET ev == [type |-> "message", id |-> tasks[t].result]
                W1 == [World EXCEPT !.jobs[TaskKey(t)] =
                          NewJob(active_connections, ev,
                                 locals[tasks[t].h].participant_ids, None)]
            IN \E W \in {Run(W1, TaskKey(t))} :
                  /\ Commit(W)
                  /\ tasks' = [tasks EXCEPT ![t].phase =
                                  IF W.jobs[TaskKey(t)].phase = "done" THEN "done" ELSE "bcast"]
    /\ UNCHANGED <<transport, pc, locals, participants, messages, bots, activities, now>>

\* the task resumes from a send_text of its broadcast
TaskSend(t) ==
    /\ UNCHANGED <<replies, svcVars, auxVars>>
    /\ t \in 1..Len(tasks)
    /\ tasks[t].phase = "bcast"
    /\ \E W \in {Run(World, TaskKey(t))} :
          /\ Commit(W)
          /\ tasks' = [tasks EXCEPT ![t].phase =
                          IF W.jobs[TaskKey(t)].phase = "done" THEN "done" ELSE "bcast"]
    /\ UNCHANGED <<transport, pc, locals, participants, messages, bots, activities, now>>

Row(u) == [user_id |-> u, is_active |-> TRUE, last_read_at |-> NoTime]

\* the handler's parameters and local variables before the first frame
NoLocals(token) ==
    [token |-> token, conversation_id |-> None, participant_ids |-> <<>>,
     new_message |-> 0]

\* Conversation(type=GROUP)
GroupRow == [type |-> "GROUP", created_by_id |-> "u1"]

\* no sweep is running
NoSweep == [phase |-> "idle", order |-> <<>>, idx |-> 0, evaluated |-> {},
            eligible |-> {}, check_raised |-> {}, act_raised |-> {},
            performed |-> {}]

\* no trigger_all_active_bots request is running
NoManual == [phase |-> "idle", order |-> <<>>, idx |-> 0, chosen |-> None,
             performed |-> {}]

\* the request has not called get_or_create_direct_conversation yet
NoCall == [phase |-> "idle", user_id |-> None, other_user_id |-> None,
           found |-> None, result |-> None]

\* no template: the call has not returned
NoResponse == [personality |-> None, bucket |-> None, n |-> 0]

\* random.choice([]) raises IndexError
ChoiceRaised == [personality |-> None, bucket |-> "raise", n |-> 0]

\* _generate_message_response has not been called
NoCallGenerate ==
    [message_content |-> <<>>, personality |-> None, response |-> NoResponse]

\* respond_to_messages has not been called
NoRespond == [n |-> 0, bot |-> None, result |-> FALSE]

\* nothing was sent on any socket, the scheduler is idle, the two group
\* conversations exist, no request is in flight and nobody is typing
InitServices ==
    /\ replies = [c \in Conns |-> <<>>]
    /\ sweep = NoSweep
    /\ conversations = [k \in Convs |-> GroupRow]
    /\ calls = [r \in Requests |-> NoCall]
    /\ typing_users = [k \in {} |-> {}]
    /\ signals = 0
    /\ generated = NoCallGenerate
    /\ respond = NoRespond
    /\ manual = NoManual

BotRow(cm, freq, cap) ==
    [is_active |-> TRUE, can_message |-> cm, can_post |-> TRUE,
     can_list_products |-> TRUE, activity_frequency |-> freq,
     max_daily_activities |-> cap, total_messages |-> 0, total_posts |-> 0,
     total_products |-> 0, last_activity_at |-> NoTime]

\* no connection has been opened yet; k1 holds u1, u2 and bot b1, k2 holds
\* u1 and bot b2, and u2 has left it
Init ==
    /\ active_connections = <<>>
    /\ online_users = {}
    /\ transport = [c \in Conns |-> "none"]
    /\ pc = [c \in Conns |-> "idle"]
    /\ jobs = [a \in Conns \cup {TaskKey(t) : t \in 1..MaxTasks} |-> NoJob]
    /\ locals = [c \in Conns |-> NoLocals(None)]
    /\ tasks = <<>>
    /\ log = [c \in Conns |-> <<>>]
    /\ participants = [k \in Convs |->
                          IF k = "k1" THEN <<Row("u1"), Row("u2"), Row("b1")>>
                          ELSE <<Row("u1"), [Row("u2") EXCEPT !.is_active = FALSE],
                                 Row("b2")>>]
    /\ messages = <<>>
    /\ bots = [b \in BotUsers |-> BotRow(TRUE, 1, 1)]
    /\ activities = <<>>
    /\ now = StartTime
    /\ InitServices

\* the connection lifecycle: connect, presence broadcasts, disconnect
Next ==
    \/ \E c \in Conns : Connect(c)
    \/ \E c \in Conns : ClientClose(c)
    \/ \E c \in Conns : RecvDisconnect(c)
    \/ \E c \in Conns : HandlerSend(c)

Spec == Init /\ [][Next]_vars

\* u1 is connected on two devices and u2 on one, every handler waits for a frame
InitChat ==
    /\ active_connections = <<[user |-> "u1", conns |-> <<"c1", "c2">>],
                              [user |-> "u2", conns |-> <<"c3">>]>>
    /\ online_users = {"u1", "u2"}
    /\ transport = [c \in Conns |-> "up"]
    /\ pc = [c \in Conns |-> "recv"]
    /\ jobs = [a \in Conns \cup {TaskKey(t) : t \in 1..MaxTasks} |-> NoJob]
    /\ locals = [c \in Conns |-> NoLocals("valid")]
    /\ tasks = <<>>
    /\ log = [c \in Conns |-> <<>>]
    /\ participants = [k \in Convs |->
                          IF k = "k1" THEN <<Row("u1"), Row("u2"), Row("b1")>>
                          ELSE <<Row("u1"), [Row("u2") EXCEPT !.is_active = FALSE],
                                 Row("b2")>>]
    /\ messages = <<>>
    /\ bots = [b \in BotUsers |-> BotRow(TRUE, 1, 1)]
    /\ activities = <<>>
    /\ now = StartTime
    /\ InitServices

\* message frames and the bot-response tasks they start, every peer staying up
NextChat ==
    \/ \E c \in Conns, k \in Convs : FrameMessage(c, k)
    \/ \E c \in Conns : HandlerSend(c)
    \/ \E t \in 1..MaxTasks : TaskStart(t)
    \/ \E t \in 1..MaxTasks : ImmFinish(t)
    \/ \E t \in 1..MaxTasks : TaskResume(t)
    \/ \E t \in 1..MaxTasks : TaskSend(t)

SpecChat == InitChat /\ [][NextChat]_vars

\* a message frame, its bot reply, and peers that drop while they are broadcast
NextDrop ==
    \/ \E c \in Conns : ClientClose(c)
    \/ \E c \in Conns : RecvDisconnect(c)
    \/ \E c \in Conns, k \in Convs : Len(messages) < MaxDropMsgs /\ FrameMessage(c, k)
    \/ \E c \in Conns : HandlerSend(c)
    \/ \E t \in 1..MaxTasks : TaskStart(t)
    \/ \E t \in 1..MaxTasks : ImmFinish(t)
    \/ \E t \in 1..MaxTasks : TaskResume(t)
    \/ \E t \in 1..MaxTasks : TaskSend(t)

SpecDrop == InitChat /\ [][NextDrop]_vars

\* lines 169-170: an exception inside trigger_bot_response, raised by the
\* executor call before it commits or while the reply is formatted, is caught
\* and logged, and the task ends
TaskRaise(t) ==
    /\ t \in 1..Len(tasks)
    /\ tasks[t].phase \in {"sleeping", "returned"}
    /\ tasks' = [tasks EXCEPT ![t].phase = "failed"]
    /\ UNCHANGED <<active_connections, online_users, transport, pc, jobs, locals,
                   log, participants, messages, bots, activities, now, replies,
                   svcVars, auxVars>>

\* a message frame and its bot-response task, which may fail, while peers drop
NextTask ==
    \/ \E c \in Conns : ClientClose(c)
    \/ \E c \in Conns : RecvDisconnect(c)
    \/ \E c \in Conns, k \in Convs : Len(messages) < MaxDropMsgs /\ FrameMessage(c, k)
    \/ \E c \in Conns : HandlerSend(c)
    \/ \E t \in 1..MaxTasks : TaskStart(t)
    \/ \E t \in 1..MaxTasks : ImmFinish(t)
    \/ \E t \in 1..MaxTasks : TaskResume(t)
    \/ \E t \in 1..MaxTasks : TaskSend(t)
    \/ \E t \in 1..MaxTasks : TaskRaise(t)

SpecTask == InitChat /\ [][NextTask]_vars

\* read frames, and peers that drop while the receipts are broadcast
NextRead ==
    \/ \E c \in Conns : ClientClose(c)
    \/ \E c \in Conns : RecvDisconnect(c)
    \/ \E c \in Conns, k \in Convs : FrameRead(c, k)
    \/ \E c \in Conns : HandlerSend(c)

SpecRead == InitChat /\ [][NextRead]_vars

\* typing frames, and peers that drop while the indicators are broadcast
NextTyping ==
    \/ \E c \in Conns : ClientClose(c)
    \/ \E c \in Conns : RecvDisconnect(c)
    \/ \E c \in Conns, k \in Convs \cup {"k0"}, is_typing \in BOOLEAN :
          FrameTyping(c, k, is_typing)
    \/ \E c \in Conns : HandlerSend(c)

SpecTyping == InitChat /\ [][NextTyping]_vars

\* ------------------------------------------------- bot service, scheduled
Hours24 == 86400

\* Message.created_at of row i is later than that of row j; rows written in
\* the same clock value were written in id order
Later(i, j) ==
    \/ messages[i].created_at > messages[j].created_at
    \/ messages[i].created_at = messages[j].created_at /\ i > j

\* respond_to_messages, lines 402-409
RecentMessages(b) ==
    {i \in 1..Len(messages) :
        /\ IsActiveParticipant(messages[i].conversation_id, b)
        /\ messages[i].sender_id # b
        /\ messages[i].created_at >= now - Hours24
        /\ ~messages[i].is_deleted}

\* respond_to_messages, lines 412-424
MessagesToRespond(b) ==
    {i \in RecentMessages(b) :
        ~\E j \in 1..Len(messages) :
            /\ messages[j].conversation_id = messages[i].conversation_id
            /\ messages[j].sender_id = b
            /\ Later(j, i)}

\* the last row in created_at descending order
LeastRecent(S) == CHOOSE i \in S : \A j \in S : j = i \/ Later(j, i)

\* respond_to_messages, line 430: first row in created_at descending order
MostRecent(S) == CHOOSE i \in S : \A j \in S : j = i \/ Later(i, j)

\* BotService.respond_to_messages
RespondToMessages(b) ==
    IF bots[b].can_message /\ MessagesToRespond(b) # {} /\ Len(messages) < MaxMsgs
    THEN LET m == MostRecent(MessagesToRespond(b)) IN
         /\ messages' = Append(messages,
                               BotMessage(messages[m].conversation_id, b, "scheduled", m))
         /\ activities' = Append(activities, BotActivity(b, "message"))
         /\ bots' = [bots EXCEPT ![b] = SchedBotUpdate(@)]
    ELSE UNCHANGED <<messages, activities, bots>>

\* create_bot_post, lines 261-273
CreateBotPost(b) ==
    IF bots[b].can_post
    THEN /\ activities' = Append(activities, BotActivity(b, "post"))
         /\ bots' = [bots EXCEPT ![b].total_posts = @ + 1, ![b].last_activity_at = now]
         /\ UNCHANGED messages
    ELSE UNCHANGED <<messages, activities, bots>>

\* create_bot_product, lines 325-337
CreateBotProduct(b) ==
    IF bots[b].can_list_products
    THEN /\ activities' = Append(activities, BotActivity(b, "product_list"))
         /\ bots' = [bots EXCEPT ![b].total_products = @ + 1, ![b].last_activity_at = now]
         /\ UNCHANGED messages
    ELSE UNCHANGED <<messages, activities, bots>>

\* perform_random_activity, lines 549-555
AvailableActivities(b) ==
    (IF bots[b].can_post THEN {"post"} ELSE {})
    \cup (IF bots[b].can_list_products THEN {"product"} ELSE {})
    \cup (IF bots[b].can_message THEN {"respond"} ELSE {})

\* trigger_bot_activities, lines 40-47, for one bot, with perform_random_activity
SweepBot(b) ==
    /\ UNCHANGED <<replies, svcVars, auxVars>>
    /\ bots[b].is_active
    /\ should_bot_act(b)
    /\ Len(activities) < MaxActs
    /\ \E chosen \in AvailableActivities(b) :
          CASE chosen = "post" -> CreateBotPost(b)
            [] chosen = "product" -> CreateBotProduct(b)
            [] OTHER -> RespondToMessages(b)
    /\ UNCHANGED <<active_connections, online_users, transport, pc, jobs, locals,
                   tasks, log, participants, now>>

\* a direct call of trigger_immediate_bot_response(db, k, mid)
CallImmediate(k, mid) ==
    /\ UNCHANGED <<replies, svcVars, auxVars>>
    /\ mid \in 1..Len(messages)
    /\ \A t \in 1..Len(tasks) : tasks[t].phase # "sleeping"
    /\ tasks' = <<ImmCall("api", k, mid)>>
    /\ UNCHANGED <<active_connections, online_users, transport, pc, jobs, locals,
                   log, participants, messages, bots, activities, now>>

\* create_message called for a human participant outside the socket
PostMessage(u, k) ==
    /\ UNCHANGED <<replies, svcVars, auxVars>>
    /\ IsActiveParticipant(k, u)
    /\ Len(messages) < MaxPosts
    /\ messages' = Append(messages, HumanMessage(k, u))
    /\ UNCHANGED <<active_connections, online_users, transport, pc, jobs, locals,
                   tasks, log, participants, bots, activities, now>>

\* the wall clock advances
Tick ==
    /\ UNCHANGED <<replies, svcVars, auxVars>>
    /\ now < MaxTime
    /\ now' = now + TickLen
    /\ UNCHANGED <<active_connections, online_users, transport, pc, jobs, locals,
                   tasks, log, participants, messages, bots, activities>>

\* nobody is connected; b1's daily cap is drawn from a small set
InitBot ==
    /\ active_connections = <<>>
    /\ online_users = {}
    /\ transport = [c \in Conns |-> "none"]
    /\ pc = [c \in Conns |-> "idle"]
    /\ jobs = [a \in Conns \cup {TaskKey(t) : t \in 1..MaxTasks} |-> NoJob]
    /\ locals = [c \in Conns |-> NoLocals(None)]
    /\ tasks = <<>>
    /\ log = [c \in Conns |-> <<>>]
    /\ participants = [k \in Convs |->
                          IF k = "k1" THEN <<Row("u1"), Row("u2"), Row("b1")>>
                          ELSE <<Row("u1"), [Row("u2") EXCEPT !.is_active = FALSE],
                                 Row("b2")>>]
    /\ messages = <<>>
    /\ \E cap \in {1, 2} :
          bots = [b \in BotUsers |->
                     IF b = "b1" THEN BotRow(TRUE, 1, cap) ELSE BotRow(FALSE, 1, 1)]
    /\ activities = <<>>
    /\ now = StartTime
    /\ InitServices

NextBot ==
    \/ Tick
    \/ \E u \in Humans, k \in Convs : PostMessage(u, k)
    \/ \E k \in Convs, mid \in 1..MaxMsgs : CallImmediate(k, mid)
    \/ ImmFinish(1)
    \/ \E b \in BotUsers : SweepBot(b)

SpecBot == InitBot /\ [][NextBot]_vars

\* k1 holds both bots, k2 holds b2; each bot may or may not message
InitReply ==
    /\ active_connections = <<>>
    /\ online_users = {}
    /\ transport = [c \in Conns |-> "none"]
    /\ pc = [c \in Conns |-> "idle"]
    /\ jobs = [a \in Conns \cup {TaskKey(t) : t \in 1..MaxTasks} |-> NoJob]
    /\ locals = [c \in Conns |-> NoLocals(None)]
    /\ tasks = <<>>
    /\ log = [c \in Conns |-> <<>>]
    /\ participants = [k \in Convs |->
                          IF k = "k1" THEN <<Row("u1"), Row("u2"), Row("b1"), Row("b2")>>
                          ELSE <<Row("u1"), [Row("u2") EXCEPT !.is_active = FALSE],
                                 Row("b2")>>]
    /\ messages = <<>>
    /\ \E cm \in [BotUsers -> BOOLEAN] : bots = [b \in BotUsers |-> BotRow(cm[b], 1, 1)]
    /\ activities = <<>>
    /\ now = StartTime
    /\ InitServices

\* create_message called for a human participant, any number of times
SendMessage(u, k) ==
    /\ UNCHANGED <<replies, svcVars, auxVars>>
    /\ IsActiveParticipant(k, u)
    /\ Len(messages) < MaxMsgs
    /\ Cardinality({i \in 1..Len(messages) : ~IsBot(messages[i].sender_id)}) < MaxInbound
    /\ messages' = Append(messages, HumanMessage(k, u))
    /\ UNCHANGED <<active_connections, online_users, transport, pc, jobs, locals,
                   tasks, log, participants, bots, activities, now>>

\* a call of respond_to_messages(db, b), as perform_random_activity makes it
\* at line 570
Respond(b) ==
    /\ respond.n < MaxRuns
    /\ Len(messages) < MaxMsgs
    /\ RespondToMessages(b)
    /\ respond' = [n |-> respond.n + 1, bot |-> b, result |-> messages' # messages]
    /\ UNCHANGED <<active_connections, online_users, transport, pc, jobs, locals,
                   tasks, log, participants, now, replies, svcVars, typing_users,
                   signals, generated, manual>>

\* the two response pathways side by side
NextReply ==
    \/ Tick
    \/ \E u \in Humans, k \in Convs : SendMessage(u, k)
    \/ \E k \in Convs, mid \in 1..MaxMsgs : CallImmediate(k, mid)
    \/ ImmFinish(1)
    \/ \E b \in BotUsers : Respond(b)

SpecReply == InitReply /\ [][NextReply]_vars

\* ------------------------------------------ authentication and frame errors
PolicyViolation == 1008

\* what a client may pass as ?token=: a good token, one that does not verify,
\* one whose user row is missing, one whose user is disabled, and a good
\* token presented while the user lookup fails
Credentials == {"valid", "forged", "ghost", "disabled", "dberror"}

\* users rows with is_active = False
Disabled == {"u3"}

\* an exception instead of a value
Raise == "raise"

\* jwt.verify_token: the user id of the payload, or None
verify_token(c, cred) ==
    CASE cred = "forged" -> None
      [] cred = "ghost" -> "u9"
      [] cred = "disabled" -> "u3"
      [] OTHER -> ConnUser(c)

\* get_current_user_from_token that forgets `not user.is_active`
get_current_user_from_token_AnyUser(c, cred) ==
    LET token_data == verify_token(c, cred) IN
    IF token_data = None THEN None
    ELSE IF cred = "dberror" THEN Raise
    ELSE IF token_data \notin Users \cup Disabled THEN None
    ELSE token_data

\* security.get_current_user_from_token
get_current_user_from_token(c, cred) ==
    LET token_data == verify_token(c, cred) IN
    IF token_data = None THEN None
    ELSE IF cred = "dberror" THEN Raise
    ELSE IF token_data \notin Users \cup Disabled \/ token_data \in Disabled THEN None
    ELSE token_data

\* lines 49-61: the endpoint is entered with ?token=cred
Authenticate(c, cred) ==
    /\ pc[c] = "idle"
    /\ locals' = [locals EXCEPT ![c].token = cred]
    /\ LET user == get_current_user_from_token(c, cred) IN
       IF user \in {None, Raise}
       THEN /\ pc' = [pc EXCEPT ![c] = "rejected"]
            /\ replies' = Answer(c, NoFrame,
                                 CloseFrame(PolicyViolation,
                                            IF user = None THEN "Invalid token"
                                            ELSE "Authentication failed"))
            /\ UNCHANGED <<active_connections, online_users, transport, jobs, tasks, log>>
       ELSE /\ transport' = [transport EXCEPT ![c] = "up"]
            /\ LET W0 == RegConnect([World EXCEPT !.tr[c] = "up"], c, user)
                   W1 == [W0 EXCEPT !.jobs[c] = StatusJob(W0.ac, user, "online")]
               IN \E W \in {Run(W1, c)} : Commit(W) /\ HandlerNext(c, W, "online")
            /\ UNCHANGED replies
    /\ UNCHANGED <<participants, messages, bots, activities, now, svcVars, auxVars>>

\* lines 275-277: receive_text raises something other than WebSocketDisconnect
\* (a binary frame has no "text"); the endpoint returns and the server closes
\* the socket
RecvError(c) ==
    /\ pc[c] = "recv"
    /\ transport[c] = "up"
    /\ Commit(RegDisconnect(World, c, ConnUser(c)))
    /\ pc' = [pc EXCEPT ![c] = "closed"]
    /\ transport' = [transport EXCEPT ![c] = "down"]
    /\ UNCHANGED <<locals, tasks, participants, messages, bots, activities, now,
                   replies, svcVars, auxVars>>

\* lines 248-250: a "ping" frame
FramePing(c) ==
    /\ pc[c] = "recv"
    /\ transport[c] = "up"
    /\ ReplyCount < MaxReplies
    /\ replies' = Answer(c, Frame("object", "ping", None, ""), Pong)
    /\ UNCHANGED <<active_connections, online_users, transport, pc, jobs, locals,
                   tasks, log, participants, messages, bots, activities, now, svcVars, auxVars>>

\* frame types the handler has no branch for; "None" is a frame without "type"
UnknownTypes == {"join", "None"}

\* an error event that does not name the type
UnknownTypeErrorUnnamed(type) == ErrorEvent("Unknown message type")

\* lines 253-256
UnknownTypeError(type) == ErrorEvent("Unknown message type: " \o type)

\* lines 252-256: a frame of a type that is none of message, typing, read, ping
FrameUnknown(c, type) ==
    /\ pc[c] = "recv"
    /\ transport[c] = "up"
    /\ ReplyCount < MaxReplies
    /\ replies' = Answer(c, Frame("object", type, None, ""), UnknownTypeError(type))
    /\ UNCHANGED <<active_connections, online_users, transport, pc, jobs, locals,
                   tasks, log, participants, messages, bots, activities, now, svcVars, auxVars>>

\* lines 258-268: text that is not JSON (JSONDecodeError), or JSON that is not
\* an object (message_data.get raises AttributeError)
FrameInvalid(c, json) ==
    /\ pc[c] = "recv"
    /\ transport[c] = "up"
    /\ ReplyCount < MaxReplies
    /\ replies' = Answer(c, Frame(json, None, None, ""),
                         IF json = "not_json" THEN ErrorEvent("Invalid JSON format")
                         ELSE ErrorEvent("Internal server error"))
    /\ UNCHANGED <<active_connections, online_users, transport, pc, jobs, locals,
                   tasks, log, participants, messages, bots, activities, now, svcVars, auxVars>>

\* lines 74-82, 183-187 and 206-209: a frame of `type` without conversation_id
\* (k = None), or a "message" frame for k without content
FrameMissingField(c, type, k) ==
    /\ pc[c] = "recv"
    /\ transport[c] = "up"
    /\ ReplyCount < MaxReplies
    /\ type = "message" \/ k = None
    /\ locals' = [locals EXCEPT ![c].conversation_id = k]
    /\ replies' = Answer(c, Frame("object", type, k,
                               IF type = "message" /\ k = None THEN "text" ELSE ""),
                         IF type = "message"
                         THEN ErrorEvent("Missing conversation_id or content")
                         ELSE NoAnswer)
    /\ UNCHANGED <<active_connections, online_users, transport, pc, jobs, tasks,
                   log, participants, messages, bots, activities, now, svcVars, auxVars>>

\* the connection lifecycle with every way in and out of the frame loop
NextLifecycle ==
    \/ \E c \in Conns, cred \in Credentials : Authenticate(c, cred)
    \/ \E c \in Conns : ClientClose(c)
    \/ \E c \in Conns : RecvDisconnect(c)
    \/ \E c \in Conns : RecvError(c)
    \/ \E c \in Conns : HandlerSend(c)

SpecLifecycle == Init /\ [][NextLifecycle]_vars

\* u1 and u2 are connected on one device each, both handlers wait for a frame
InitFrames ==
    /\ active_connections = <<[user |-> "u1", conns |-> <<"c1">>],
                              [user |-> "u2", conns |-> <<"c3">>]>>
    /\ online_users = {"u1", "u2"}
    /\ transport = [c \in Conns |-> IF c = "c2" THEN "none" ELSE "up"]
    /\ pc = [c \in Conns |-> IF c = "c2" THEN "idle" ELSE "recv"]
    /\ jobs = [a \in Conns \cup {TaskKey(t) : t \in 1..MaxTasks} |-> NoJob]
    /\ locals = [c \in Conns |-> NoLocals(IF c = "c2" THEN None ELSE "valid")]
    /\ tasks = <<>>
    /\ log = [c \in Conns |-> <<>>]
    /\ participants = [k \in Convs |->
                          IF k = "k1" THEN <<Row("u1"), Row("u2"), Row("b1")>>
                          ELSE <<Row("u1"), [Row("u2") EXCEPT !.is_active = FALSE],
                                 Row("b2")>>]
    /\ messages = <<>>
    /\ bots = [b \in BotUsers |-> BotRow(TRUE, 1, 1)]
    /\ activities = <<>>
    /\ now = StartTime
    /\ InitServices

\* frames of every kind on open connections, and the bot-response tasks
NextFrames ==
    \/ \E c \in Conns, k \in Convs \cup {"k0"} :
          /\ Len(messages) < MaxDropMsgs \/ ~IsActiveParticipant(k, ConnUser(c))
          /\ FrameMessage(c, k)
    \/ \E c \in Conns : HandlerSend(c)
    \/ \E t \in 1..MaxTasks : TaskStart(t)
    \/ \E t \in 1..MaxTasks : ImmFinish(t)
    \/ \E t \in 1..MaxTasks : TaskResume(t)
    \/ \E t \in 1..MaxTasks : TaskSend(t)
    \/ \E c \in Conns : FramePing(c)
    \/ \E c \in Conns, type \in UnknownTypes : FrameUnknown(c, type)
    \/ \E c \in Conns, json \in {"not_json", "not_object"} : FrameInvalid(c, json)
    \/ \E c \in Conns, type \in {"message", "typing", "read"}, k \in {None, "k1"} :
          FrameMissingField(c, type, k)

SpecFrames == InitFrames /\ [][NextFrames]_vars

\* -------------------------------------------- _generate_message_response
\* a text is a sequence of characters
UpperCase == <<"A", "B", "C", "D", "E", "F", "G", "H", "I", "J", "K", "L", "M",
               "N", "O", "P", "Q", "R", "S", "T", "U", "V", "W", "X", "Y", "Z">>

LowerCase == <<"a", "b", "c", "d", "e", "f", "g", "h", "i", "j", "k", "l", "m",
               "n", "o", "p", "q", "r", "s", "t", "u", "v", "w", "x", "y", "z">>

\* str.lower
Lower(text) ==
    [i \in 1..Len(text) |->
        IF \E j \in 1..Len(UpperCase) : UpperCase[j] = text[i]
        THEN LowerCase[CHOOSE j \in 1..Len(UpperCase) : UpperCase[j] = text[i]]
        ELSE text[i]]

\* str.strip
RECURSIVE Strip(_)
Strip(text) ==
    IF text = <<>> THEN text
    ELSE IF Head(text) = " " THEN Strip(Tail(text))
    ELSE IF text[Len(text)] = " " THEN Strip(SubSeq(text, 1, Len(text) - 1))
    ELSE text

\* `word in text`
Contains(text, word) ==
    \E i \in 1..(Len(text) - Len(word) + 1) : SubSeq(text, i, i + Len(word) - 1) = word

\* len(text.split()): the runs of characters that are not spaces
WordCount(text) ==
    Cardinality({i \in 1..Len(text) : text[i] # " " /\ (i = 1 \/ text[i - 1] = " ")})

\* line 527
GreetingWords ==
    {<<"h", "e", "l", "l", "o">>,
     <<"h", "i">>,
     <<"h", "e", "y">>,
     <<"g", "r", "e", "e", "t", "i", "n", "g", "s">>,
     <<"g", "o", "o", "d", " ", "m", "o", "r", "n", "i", "n", "g">>,
     <<"g", "o", "o", "d", " ", "a", "f", "t", "e", "r", "n", "o", "o", "n">>,
     <<"g", "o", "o", "d", " ", "e", "v", "e", "n", "i", "n", "g">>}

\* line 529
ThanksWords ==
    {<<"t", "h", "a", "n", "k", "s">>,
     <<"t", "h", "a", "n", "k", " ", "y", "o", "u">>,
     <<"t", "h", "x">>,
     <<"t", "y">>,
     <<"a", "p", "p", "r", "e", "c", "i", "a", "t", "e">>}

\* line 531
QuestionMarks ==
    {<<"?">>,
     <<"h", "o", "w">>,
     <<"w", "h", "a", "t">>,
     <<"w", "h", "y">>,
     <<"w", "h", "e", "n">>,
     <<"w", "h", "e", "r", "e">>,
     <<"w", "h", "o">>}

Personalities == {"friendly", "professional", "humorous", "educational",
                  "enthusiast", "creative", "analytical"}

Buckets == {"greeting", "thanks", "question", "general", "default"}

\* lines 471-521: the number of templates of each pool
PoolSize(personality) ==
    CASE
         personality = "friendly" ->
            [greeting |-> 3, question |-> 3, thanks |-> 3, general |-> 4, default |-> 2]
      [] personality = "professional" ->
            [greeting |-> 3, question |-> 3, thanks |-> 3, general |-> 4, default |-> 3]
      [] personality = "humorous" ->
            [greeting |-> 3, question |-> 3, thanks |-> 3, general |-> 3, default |-> 3]
      [] personality = "educational" ->
            [greeting |-> 3, question |-> 3, thanks |-> 3, general |-> 4, default |-> 3]
      [] personality = "enthusiast" ->
            [greeting |-> 3, question |-> 3, thanks |-> 3, general |-> 3, default |-> 3]
      [] personality = "creative" ->
            [greeting |-> 3, question |-> 3, thanks |-> 3, general |-> 3, default |-> 3]
      [] personality = "analytical" ->
            [greeting |-> 3, question |-> 3, thanks |-> 3, general |-> 4, default |-> 3]

\* a classifier that looks for gratitude before greetings
ResponseTypeThanksFirst(message_content) ==
    LET content_lower == Strip(Lower(message_content)) IN
    IF \E word \in ThanksWords : Contains(content_lower, word) THEN "thanks"
    ELSE IF \E word \in GreetingWords : Contains(content_lower, word) THEN "greeting"
    ELSE IF \E char \in QuestionMarks : Contains(content_lower, char) THEN "question"
    ELSE IF WordCount(content_lower) > 3 THEN "general"
    ELSE "default"

\* lines 468 and 527-536
ResponseType(message_content) ==
    LET content_lower == Strip(Lower(message_content)) IN
    IF \E word \in GreetingWords : Contains(content_lower, word) THEN "greeting"
    ELSE IF \E word \in ThanksWords : Contains(content_lower, word) THEN "thanks"
    ELSE IF \E char \in QuestionMarks : Contains(content_lower, char) THEN "question"
    ELSE IF WordCount(content_lower) > 3 THEN "general"
    ELSE "default"

\* lines 524 and 539: responses.get(personality, responses[FRIENDLY])[response_type],
\* template number n of a pool standing for its text
ResponseOptions(personality, response_type) ==
    LET pool == IF personality \in Personalities THEN personality ELSE "friendly"
    IN {[personality |-> pool, bucket |-> response_type, n |-> n] :
           n \in 1..PoolSize(pool)[response_type]}

\* _generate_message_response: what random.choice may return; it raises on an
\* empty pool
GenerateMessageResponse(message_content, personality) ==
    LET response_options == ResponseOptions(personality, ResponseType(message_content))
    IN IF response_options = {} THEN {ChoiceRaised} ELSE response_options

\* words a client may put in a message
Vocabulary ==
    {<<"T", "h", "e", "y">>,
     <<"T", "h", "a", "n", "k">>,
     <<"y", "o", "u">>,
     <<"w", "h", "o">>,
     <<>>}

\* the words joined by single spaces
RECURSIVE Join(_)
Join(words) ==
    IF words = <<>> THEN <<>>
    ELSE IF Len(words) = 1 THEN Head(words)
    ELSE Head(words) \o <<" ">> \o Join(Tail(words))

Texts == {Join(words) : words \in UNION {[1..n -> Vocabulary] : n \in 0..MaxWords}}

\* a bot of any personality, or with none set, is about to answer any text
InitGenerate ==
    /\ active_connections = <<>>
    /\ online_users = {}
    /\ transport = [c \in Conns |-> "none"]
    /\ pc = [c \in Conns |-> "idle"]
    /\ jobs = [a \in Conns \cup {TaskKey(t) : t \in 1..MaxTasks} |-> NoJob]
    /\ locals = [c \in Conns |-> NoLocals(None)]
    /\ tasks = <<>>
    /\ log = [c \in Conns |-> <<>>]
    /\ participants = [k \in Convs |-> <<Row("u1"), Row("b1")>>]
    /\ messages = <<>>
    /\ bots = [b \in BotUsers |-> BotRow(TRUE, 1, 1)]
    /\ activities = <<>>
    /\ now = StartTime
    /\ replies = [c \in Conns |-> <<>>]
    /\ sweep = NoSweep
    /\ conversations = [k \in Convs |-> GroupRow]
    /\ calls = [r \in Requests |-> NoCall]
    /\ typing_users = [k \in {} |-> {}]
    /\ signals = 0
    /\ respond = NoRespond
    /\ manual = NoManual
    /\ \E message_content \in Texts, personality \in Personalities \cup {None} :
          generated = [message_content |-> message_content,
                       personality |-> personality, response |-> NoResponse]

\* the call returns
Generate ==
    /\ generated.response = NoResponse
    /\ \E response \in GenerateMessageResponse(generated.message_content,
                                               generated.personality) :
          generated' = [generated EXCEPT !.response = response]
    /\ UNCHANGED <<active_connections, online_users, transport, pc, jobs, locals,
                   tasks, log, participants, messages, bots, activities, now,
                   replies, svcVars, typing_users, signals, respond, manual>>

NextGenerate == Generate

SpecGenerate == InitGenerate /\ [][NextGenerate]_vars

\* ------------------------------------- trigger_bot_global_chat_messages
\* line 131: the id of the bot-chat conversation
BOT_CHAT_ID == "-2"

\* lines 150-154: Message(conversation_id=BOT_CHAT_ID, sender_id=bot.id, ...)
AmbientMessage(b) ==
    [conversation_id |-> BOT_CHAT_ID, sender_id |-> b, created_at |-> now,
     is_deleted |-> FALSE, via |-> "ambient", reply_to |-> 0]

\* an ambient sweep that lets only a bot that is due post
GlobalChatPostIfEligible(b) ==
    /\ IsBot(b)
    /\ should_bot_act(b)
    /\ Len(messages) < MaxMsgs
    /\ conversations' = IF BOT_CHAT_ID \in DOMAIN conversations THEN conversations
                        ELSE conversations @@
                                (BOT_CHAT_ID :> [type |-> "GROUP", created_by_id |-> None])
    /\ messages' = Append(messages, AmbientMessage(b))
    /\ UNCHANGED <<active_connections, online_users, transport, pc, jobs, locals,
                   tasks, log, participants, bots, activities, now, replies,
                   sweep, calls, auxVars>>

\* trigger_bot_global_chat_messages, lines 94-157, with random.choice(bots) = b:
\* the conversation row is created if it is missing and the message is written
GlobalChatPost(b) ==
    /\ IsBot(b)
    /\ Len(messages) < MaxMsgs
    /\ conversations' = IF BOT_CHAT_ID \in DOMAIN conversations THEN conversations
                        ELSE conversations @@
                                (BOT_CHAT_ID :> [type |-> "GROUP", created_by_id |-> None])
    /\ messages' = Append(messages, AmbientMessage(b))
    /\ UNCHANGED <<active_connections, online_users, transport, pc, jobs, locals,
                   tasks, log, participants, bots, activities, now, replies,
                   sweep, calls, auxVars>>

\* the ambient chat job beside the rate-limited activities
NextAmbient ==
    \/ Tick
    \/ \E u \in Humans, k \in Convs : PostMessage(u, k)
    \/ \E b \in Users : GlobalChatPost(b)
    \/ \E b \in BotUsers : SweepBot(b)

SpecAmbient == InitBot /\ [][NextAmbient]_vars

\* ------------------------------------------------ trigger_bot_activities
\* get_active_bots followed by random.shuffle: the active bots in any order
BotSeqs == UNION {[1..n -> BotUsers] : n \in 0..Cardinality(BotUsers)}

SweepOrders ==
    {o \in BotSeqs :
        /\ \A b \in BotUsers : bots[b].is_active <=> InSeq(o, b)
        /\ \A i, j \in 1..Len(o) : i # j => o[i] # o[j]}

\* the `for bot in bots` loop moves to its next bot, or past its last one to
\* line 55
SweepAdvance(sw) ==
    IF sw.idx >= Len(sw.order)
    THEN [sw EXCEPT !.phase = "ended"]
    ELSE [sw EXCEPT !.phase = "check", !.idx = @ + 1]

\* lines 28-39: the job starts
SweepStart(order) ==
    /\ sweep.phase \in {"idle", "ended"}
    /\ order \in SweepOrders
    /\ sweep' = SweepAdvance([NoSweep EXCEPT !.order = order])
    /\ UNCHANGED <<active_connections, online_users, transport, pc, jobs, locals,
                   tasks, log, participants, messages, bots, activities, now,
                   replies, conversations, calls, auxVars>>

\* line 41: should_bot_act for the current bot; `fault` is an exception raised
\* by its query, which only the handler of lines 57-58 catches
SweepCheck(fault) ==
    /\ sweep.phase = "check"
    /\ LET b == sweep.order[sweep.idx] IN
       sweep' = IF fault
                THEN [sweep EXCEPT !.phase = "ended", !.check_raised = @ \cup {b}]
                ELSE IF should_bot_act(b)
                     THEN [sweep EXCEPT !.phase = "act", !.evaluated = @ \cup {b},
                                        !.eligible = @ \cup {b}]
                     ELSE SweepAdvance([sweep EXCEPT !.evaluated = @ \cup {b}])
    /\ UNCHANGED <<active_connections, online_users, transport, pc, jobs, locals,
                   tasks, log, participants, messages, bots, activities, now,
                   replies, conversations, calls, auxVars>>

\* BotService.perform_random_activity
PerformRandomActivity(b) ==
    IF ~should_bot_act(b) \/ AvailableActivities(b) = {}
    THEN UNCHANGED <<messages, activities, bots>>
    ELSE \E chosen \in AvailableActivities(b) :
            CASE chosen = "post" -> CreateBotPost(b)
              [] chosen = "product" -> CreateBotProduct(b)
              [] OTHER -> RespondToMessages(b)

\* lines 42-53, after the sleep of line 45: perform_random_activity for the
\* current bot; `fault` is an exception raised before anything is committed,
\* caught at line 51
SweepAct(fault) ==
    /\ sweep.phase = "act"
    /\ Len(activities) < MaxActs
    /\ LET b == sweep.order[sweep.idx] IN
       IF fault
       THEN /\ sweep' = SweepAdvance([sweep EXCEPT !.act_raised = @ \cup {b}])
            /\ UNCHANGED <<messages, activities, bots>>
       ELSE /\ sweep' = SweepAdvance([sweep EXCEPT !.performed = @ \cup {b}])
            /\ PerformRandomActivity(b)
    /\ UNCHANGED <<active_connections, online_users, transport, pc, jobs, locals,
                   tasks, log, participants, now, replies, conversations, calls, auxVars>>

\* the general activity sweep, with a clock and humans who write messages
NextSweep ==
    \/ Tick
    \/ \E u \in Humans, k \in Convs : PostMessage(u, k)
    \/ \E order \in BotSeqs : SweepStart(order)
    \/ \E fault \in BOOLEAN : SweepCheck(fault)
    \/ \E fault \in BOOLEAN : SweepAct(fault)

SpecSweep == InitBot /\ [][NextSweep]_vars

\* ------------------------------------------------ trigger_all_active_bots
\* the `for bot in bots` loop of the request moves to its next bot, or returns
ManualAdvance(mr) ==
    IF mr.idx >= Len(mr.order)
    THEN [mr EXCEPT !.phase = "ended", !.chosen = None]
    ELSE [mr EXCEPT !.phase = "check", !.idx = @ + 1, !.chosen = None]

ManualFrame ==
    UNCHANGED <<active_connections, online_users, transport, pc, jobs, locals,
                tasks, log, participants, now, replies, svcVars, typing_users,
                signals, generated, respond>>

\* line 294: the request, run by a worker thread, reads the active bots
ManualStart(order) ==
    /\ manual.phase \in {"idle", "ended"}
    /\ order \in SweepOrders
    /\ manual' = ManualAdvance([NoManual EXCEPT !.order = order])
    /\ UNCHANGED <<messages, activities, bots>>
    /\ ManualFrame

\* line 298: should_bot_act for the current bot
ManualCheck ==
    /\ manual.phase = "check"
    /\ manual' = IF should_bot_act(manual.order[manual.idx])
                 THEN [manual EXCEPT !.phase = "perform"]
                 ELSE ManualAdvance(manual)
    /\ UNCHANGED <<messages, activities, bots>>
    /\ ManualFrame

\* perform_random_activity, lines 545-563: the eligibility test and the choice
\* of an activity, before the chosen method queries and commits
ManualPerform ==
    /\ manual.phase = "perform"
    /\ LET b == manual.order[manual.idx] IN
       IF ~should_bot_act(b) \/ AvailableActivities(b) = {}
       THEN manual' = ManualAdvance(manual)
       ELSE \E chosen \in AvailableActivities(b) :
               manual' = [manual EXCEPT !.phase = "write", !.chosen = chosen]
    /\ UNCHANGED <<messages, activities, bots>>
    /\ ManualFrame

\* perform_random_activity, lines 565-570: the chosen method writes and commits
ManualWrite ==
    /\ manual.phase = "write"
    /\ Len(activities) < MaxActs
    /\ LET b == manual.order[manual.idx] IN
       /\ manual' = ManualAdvance([manual EXCEPT !.performed = @ \cup {b}])
       /\ CASE manual.chosen = "post" -> CreateBotPost(b)
            [] manual.chosen = "product" -> CreateBotProduct(b)
            [] OTHER -> RespondToMessages(b)
    /\ ManualFrame

\* the scheduler's sweep and a manual trigger-all request, each in its thread
NextTrigger ==
    \/ Tick
    \/ \E u \in Humans, k \in Convs : PostMessage(u, k)
    \/ \E order \in BotSeqs : SweepStart(order)
    \/ \E fault \in BOOLEAN : SweepCheck(fault)
    \/ \E fault \in BOOLEAN : SweepAct(fault)
    \/ \E order \in BotSeqs : ManualStart(order)
    \/ ManualCheck
    \/ ManualPerform
    \/ ManualWrite

SpecTrigger == InitBot /\ [][NextTrigger]_vars

\* ------------------------------------- get_or_create_direct_conversation
\* active participant ids of conversation k, line 38
ActiveIds(k) ==
    {participants[k][i].user_id :
        i \in {j \in 1..Len(participants[k]) : participants[k][j].is_active}}

\* lines 23-34: the DIRECT conversations in which exactly two active
\* participant rows belong to a or b
DirectCandidates(a, b) ==
    {k \in DOMAIN conversations :
        /\ conversations[k].type = "DIRECT"
        /\ Cardinality({i \in 1..Len(participants[k]) :
                           /\ participants[k][i].user_id \in {a, b}
                           /\ participants[k][i].is_active}) = 2}

\* the id the database gives the next conversation row
NextConversationId == "d" \o ToString(Cardinality(DOMAIN conversations \ Convs) + 1)

\* lines 23-34: request r calls get_or_create_direct_conversation(db, a, b) and
\* its query returns; .first() has no ORDER BY and may return any candidate
DirectLookup(r, a, b) ==
    /\ calls[r].phase = "idle"
    /\ a # b
    /\ \E found \in (IF DirectCandidates(a, b) = {} THEN {None}
                     ELSE DirectCandidates(a, b)) :
          calls' = [calls EXCEPT ![r] =
                       [phase |-> "looked", user_id |-> a, other_user_id |-> b,
                        found |-> found, result |-> None]]
    /\ UNCHANGED <<active_connections, online_users, transport, pc, jobs, locals,
                   tasks, log, participants, messages, bots, activities, now,
                   replies, sweep, conversations, auxVars>>

\* lines 36-60: the conversation found is returned if its active participants
\* are the two users; otherwise a conversation and two participant rows are
\* inserted and committed
DirectFinish(r) ==
    /\ calls[r].phase = "looked"
    /\ LET a == calls[r].user_id
           b == calls[r].other_user_id
           found == calls[r].found
       IN IF found # None /\ ActiveIds(found) = {a, b}
          THEN /\ calls' = [calls EXCEPT ![r].phase = "done", ![r].result = found]
               /\ UNCHANGED <<conversations, participants>>
          ELSE LET id == NextConversationId IN
               /\ conversations' =
                     conversations @@ (id :> [type |-> "DIRECT", created_by_id |-> a])
               /\ participants' = participants @@ (id :> <<Row(a), Row(b)>>)
               /\ calls' = [calls EXCEPT ![r].phase = "done", ![r].result = id]
    /\ UNCHANGED <<active_connections, online_users, transport, pc, jobs, locals,
                   tasks, log, messages, bots, activities, now, replies, sweep, auxVars>>

\* requests that create direct conversations, each in its own session
NextDirect ==
    \/ \E r \in Requests, a, b \in Users : DirectLookup(r, a, b)
    \/ \E r \in Requests : DirectFinish(r)

SpecDirect == Init /\ [][NextDirect]_vars

\* ----------------------------------------------------------------- claims
Registered(c) == InSeq(ConnsOf(active_connections, ConnUser(c)), c)

\* connection c was sent something by coroutine a in this step
SentNow(a, c) ==
    /\ jobs'[a].phase # "none"
    /\ c \in jobs'[a].sentTo
    /\ ~(Running(jobs[a]) /\ c \in jobs[a].sentTo)

\* C1: is_user_online(u) holds exactly when u has a registered connection,
\* and no key of active_connections maps to an empty list
OnlineInvariant ==
    /\ \A u \in Users : is_user_online(u) <=> ConnsOf(active_connections, u) # <<>>
    /\ \A i \in 1..Len(active_connections) : active_connections[i].conns # <<>>

\* a failed send pruned the last connection of one user while its handler
\* still waits for a frame, and another user is online
OnlineInvariantWitness ==
    \E c \in Conns :
        /\ pc[c] = "recv"
        /\ ~Registered(c)
        /\ ~is_user_online(ConnUser(c))
        /\ online_users # {}

\* C2: a call of trigger_immediate_bot_response whose triggering message was
\* sent by a bot returns None, and no immediate reply answers a bot's message
NoBotToBotReply ==
    /\ \A t \in 1..Len(tasks) :
          (/\ tasks[t].phase # "created"
           /\ tasks[t].mid \in 1..Len(messages)
           /\ IsBot(messages[tasks[t].mid].sender_id))
          => /\ tasks[t].phase \in {"returned", "done"}
             /\ tasks[t].result = 0
             /\ tasks[t].bot = None
    /\ \A m \in 1..Len(messages) :
          messages[m].via = "immediate" => ~IsBot(messages[messages[m].reply_to].sender_id)
    /\ Cardinality({i \in 1..Len(activities) : activities[i].activity_type = "message"})
          = Cardinality({m \in 1..Len(messages) : IsBot(messages[m].sender_id)})
    /\ \A b \in BotUsers :
          bots[b].total_messages
             = Cardinality({m \in 1..Len(messages) : messages[m].sender_id = b})

\* the call was made for a bot's message in a conversation where a bot that
\* can message is an active participant
NoBotToBotReplyWitness ==
    \E t \in 1..Len(tasks) :
        /\ tasks[t].phase = "returned"
        /\ tasks[t].mid \in 1..Len(messages)
        /\ IsBot(messages[tasks[t].mid].sender_id)
        /\ FirstBot(participants[tasks[t].conv]) # None

\* C3: an immediate reply leaves the bot's last_activity_at as it was, and a
\* scheduled reply sets it to the current time
ReplyLastActivity ==
    [][\A b \in BotUsers :
          (/\ Len(messages') = Len(messages) + 1
           /\ messages'[Len(messages')].sender_id = b)
          => /\ messages'[Len(messages')].via = "immediate"
                  => bots'[b].last_activity_at = bots[b].last_activity_at
             /\ messages'[Len(messages')].via = "scheduled"
                  => bots'[b].last_activity_at = now]_vars

\* a bot answered on schedule and, at a later time, immediately
ReplyLastActivityWitness ==
    \E m, n \in 1..Len(messages) :
        /\ messages[m].via = "scheduled"
        /\ messages[n].via = "immediate"
        /\ messages[n].sender_id = messages[m].sender_id
        /\ messages[n].created_at > messages[m].created_at
        /\ bots[messages[m].sender_id].last_activity_at = messages[m].created_at

\* C4: once the broadcast of a human's message has ended, every connection of
\* an active participant that was registered and up throughout was sent it,
\* and no connection of anyone else was
MessageReachesParticipants ==
    \A h \in Conns :
        (jobs[h].phase # "none" /\ jobs[h].ev.type = "message")
        => LET k == messages[jobs[h].ev.id].conversation_id IN
           /\ \A c \in jobs[h].sentTo : IsActiveParticipant(k, ConnUser(c))
           /\ jobs[h].phase = "done"
                 => \A c \in jobs[h].stable :
                       (IsActiveParticipant(k, ConnUser(c)) /\ transport[c] = "up")
                       => c \in jobs[h].sentTo

\* C5: a connection that received a human's message and the immediate reply
\* to it received the human's message first
HumanBeforeReply ==
    \A c \in Conns : \A i, j \in 1..Len(log[c]) :
        messages[log[c][i]].reply_to = log[c][j] => j < i

\* activities of b logged on the day of `now`
CountToday(b) ==
    Cardinality({i \in 1..Len(activities) :
                    /\ activities[i].bot_id = b
                    /\ activities[i].created_at \div DayLen = now \div DayLen})

WindowElapsed(b) ==
    \/ bots[b].last_activity_at = NoTime
    \/ now - bots[b].last_activity_at >= bots[b].activity_frequency * 60

\* C6: should_bot_act(b) holds exactly when fewer than max_daily_activities
\* activities of b were logged today and b never acted or acted at least
\* activity_frequency minutes ago
EligibilityBoundary ==
    \A b \in BotUsers :
        should_bot_act(b) <=> (CountToday(b) < bots[b].max_daily_activities /\ WindowElapsed(b))

\* a bot that reached its cap yesterday is eligible again after midnight
EligibilityBoundaryWitness ==
    \E b \in BotUsers :
        /\ Cardinality({i \in 1..Len(activities) : activities[i].bot_id = b})
              >= bots[b].max_daily_activities
        /\ bots[b].last_activity_at # NoTime
        /\ should_bot_act(b)

\* C7: an immediate reply changes should_bot_act for no bot
ImmediateKeepsEligibility ==
    [][(/\ Len(messages') = Len(messages) + 1
        /\ messages'[Len(messages')].via = "immediate")
       => \A b \in BotUsers : should_bot_act(b)' = should_bot_act(b)]_vars

\* C8: once the broadcast of u's read receipt for conversation k has ended,
\* every connection of another active participant that was registered and up
\* throughout was sent it, and no connection of u or of a non-participant was
ReadReceiptReachesOthers ==
    \A h \in Conns :
        (jobs[h].phase # "none" /\ jobs[h].ev.type = "read_receipt")
        => LET k == jobs[h].ev.conv
               u == jobs[h].ev.user
           IN /\ \A c \in jobs[h].sentTo :
                    ConnUser(c) # u /\ IsActiveParticipant(k, ConnUser(c))
              /\ jobs[h].phase = "done"
                    => \A c \in jobs[h].stable :
                          (/\ ConnUser(c) # u
                           /\ IsActiveParticipant(k, ConnUser(c))
                           /\ transport[c] = "up")
                          => c \in jobs[h].sentTo

\* C9: whenever an "offline" event for u is sent to a connection, u has no
\* registered connection
OfflineOnlyWhenGone ==
    [][\A a \in DOMAIN jobs : \A c \in Conns :
          (/\ SentNow(a, c)
           /\ jobs'[a].ev.type = "user_status"
           /\ jobs'[a].ev.status = "offline")
          => ~(jobs'[a].ev.user \in online_users')]_vars

\* C10: connect(u, c) starts an "online" broadcast exactly when c is u's first
\* connection, and an "online" broadcast that has ended was sent to every
\* connection that was registered and up throughout
OnlineOnFirstConnection ==
    [][\A c \in Conns :
          /\ (pc[c] = "idle" /\ pc'[c] # "idle")
                => ((jobs'[c].phase # "none" /\ jobs'[c].ev.type = "user_status"
                        /\ jobs'[c].ev.status = "online")
                    <=> ~HasKey(active_connections, ConnUser(c)))
          /\ (pc[c] = "online" /\ pc'[c] # "online")
                => \A d \in jobs'[c].stable : transport'[d] = "up" => d \in jobs'[c].sentTo]_vars

\* C11: whenever a connection leaves the frame loop, by a disconnect or by an
\* error escaping the loop, it is unregistered and its handler starts an
\* "offline" broadcast for its user
CloseUnregistersAndBroadcasts ==
    [][\A c \in Conns :
          (pc[c] = "recv" /\ pc'[c] \in {"offline", "closed"})
          => /\ ~Registered(c)'
             /\ jobs'[c] # jobs[c]
             /\ jobs'[c].phase # "none"
             /\ jobs'[c].ev.type = "user_status"
             /\ jobs'[c].ev.status = "offline"
             /\ jobs'[c].ev.user = ConnUser(c)]_vars

\* coroutine a's broadcast addresses user u
Targeted(a, u) == InSeq(jobs[a].targets, u) /\ u # jobs[a].exclude

\* C12: a connection whose send_text raised is unregistered once the loop over
\* its user's connections has ended, its user is offline if it was the last
\* one, and the user's other connections that stayed registered and up were
\* sent the event
FailedSendPruned ==
    \A a \in DOMAIN jobs :
        jobs[a].phase # "none"
        => \A c \in jobs[a].failed :
              /\ (~jobs[a].inUser \/ jobs[a].targets[jobs[a].ui] # ConnUser(c))
                    => /\ ~Registered(c)
                       /\ ConnsOf(active_connections, ConnUser(c)) = <<>>
                             => ~is_user_online(ConnUser(c))
              /\ jobs[a].phase = "done"
                    => \A d \in jobs[a].stable :
                          (ConnUser(d) = ConnUser(c) /\ d # c /\ transport[d] = "up")
                          => d \in jobs[a].sentTo

\* C13: a broadcast that has ended called send_text on every connection of an
\* addressed user that was registered from its start to its end; a connection
\* whose handler is in the frame loop with its peer up is registered, and one
\* whose handler has left the loop is not
SendCoversStableConnections ==
    /\ \A a \in DOMAIN jobs :
          jobs[a].phase = "done"
          => \A c \in jobs[a].stable :
                Targeted(a, ConnUser(c)) => c \in jobs[a].sentTo \cup jobs[a].failed
    /\ \A c \in Conns :
          /\ (pc[c] \in {"online", "recv", "message", "read"} /\ transport[c] = "up")
                => Registered(c)
          /\ pc[c] \in {"idle", "rejected", "offline", "closed"} => ~Registered(c)

\* the last entry of c's transcript was written in this step
Answered(c) == Len(replies'[c]) = Len(replies[c]) + 1

LastAnswer(c) == replies'[c][Len(replies'[c])]

\* this step changed nothing but c's transcript and c's local variables
OnlyAnswers(c) ==
    /\ UNCHANGED <<active_connections, online_users, transport, pc, jobs, tasks,
                   log, participants, messages, bots, activities, now, svcVars, auxVars>>
    /\ \A d \in Conns \ {c} : replies'[d] = replies[d] /\ locals'[d] = locals[d]

\* u has no active participant row in k (k may not exist)
NotIn(k, u) ==
    \/ k \notin Convs
    \/ ~\E i \in 1..Len(participants[k]) :
           participants[k][i].user_id = u /\ participants[k][i].is_active

\* entry e of c's transcript is a complete "message" frame for a conversation
\* of which c's user is not an active participant
OutsiderMessage(c, e) ==
    /\ e.frame.json = "object"
    /\ e.frame.type = "message"
    /\ e.frame.conversation_id # None
    /\ e.frame.content # ""
    /\ NotIn(e.frame.conversation_id, ConnUser(c))

\* C14: a "message" frame for a conversation of which the sender is not an
\* active participant is answered with the error event on the sender's socket
\* and changes nothing else: no message row, no broadcast, no task, and the
\* handler stays in the frame loop, registered; no human message is ever
\* stored for a sender outside its conversation
OutsiderMessageRejected ==
    /\ [](\A m \in 1..Len(messages) :
             messages[m].via = "human"
             => ~NotIn(messages[m].conversation_id, messages[m].sender_id))
    /\ [][\A c \in Conns :
             (Answered(c) /\ OutsiderMessage(c, LastAnswer(c)))
             => /\ LastAnswer(c).answer = ErrorEvent(NotParticipant)
                /\ pc'[c] = "recv"
                /\ OnlyAnswers(c)
                /\ Registered(c)' = Registered(c)]_vars

\* u2, who has left k2, sent a message to k1 and was then refused for k2 and for
\* a conversation that does not exist; its handler still waits for frames
OutsiderMessageRejectedWitness ==
    \E c \in Conns :
        /\ pc[c] = "recv"
        /\ Registered(c)
        /\ Len(replies[c]) = 2
        /\ \A i \in 1..2 : OutsiderMessage(c, replies[c][i]) /\ replies[c][i].seen > 0
        /\ replies[c][1].frame.conversation_id = "k2"
        /\ replies[c][2].frame.conversation_id = "k0"

\* entry e of a transcript is a frame without conversation_id, or a "message"
\* frame without content
LacksField(e) ==
    /\ e.frame.json = "object"
    /\ \/ e.frame.type \in {"message", "typing", "read"} /\ e.frame.conversation_id = None
       \/ e.frame.type = "message" /\ e.frame.content = ""

\* C15: a frame that lacks a required field is answered with an error event on
\* the sender's socket, changes no table and no registry entry, starts no
\* broadcast and leaves the handler in the frame loop
MissingFieldReported ==
    /\ [](\A c \in Conns : \A i \in 1..Len(replies[c]) :
             LacksField(replies[c][i]) => replies[c][i].answer.type = "error")
    /\ [][\A c \in Conns :
             (Answered(c) /\ LacksField(LastAnswer(c)))
             => pc'[c] = "recv" /\ OnlyAnswers(c) /\ Registered(c)' = Registered(c)]_vars

\* entry e of a transcript is a frame the handler has no branch for: text that
\* is not a JSON object, or an object whose type is not one of the four kinds
Unrecognized(e) ==
    \/ e.frame.json \in {"not_json", "not_object"}
    \/ /\ e.frame.json = "object"
       /\ e.frame.type \notin {"message", "typing", "read", "ping"}

\* C16: an unrecognized frame is answered with an error event on the sender's
\* socket only, which names the type when the frame is a JSON object; nothing
\* else changes, the handler stays registered and in the frame loop, and a
\* later ping on the connection is answered with pong
UnknownFrameAnswered ==
    /\ [](\A c \in Conns : \A i \in 1..Len(replies[c]) :
             Unrecognized(replies[c][i])
             => /\ replies[c][i].answer.type = "error"
                /\ replies[c][i].frame.json = "object"
                      => replies[c][i].answer.message
                            = "Unknown message type: " \o replies[c][i].frame.type
                /\ \A j \in (i + 1)..Len(replies[c]) :
                      replies[c][j].frame.type = "ping" => replies[c][j].answer = Pong)
    /\ [][\A c \in Conns :
             (Answered(c) /\ Unrecognized(LastAnswer(c)))
             => /\ pc'[c] = "recv"
                /\ Registered(c)'
                /\ OnlyAnswers(c)
                /\ locals' = locals]_vars

\* a connection sent a frame of type "join" and then a ping, and got an error
\* naming "join" and then a pong
UnknownFrameAnsweredWitness ==
    \E c \in Conns :
        /\ pc[c] = "recv"
        /\ Registered(c)
        /\ Len(replies[c]) = 2
        /\ replies[c][1].frame.type = "join"
        /\ replies[c][1].answer = ErrorEvent("Unknown message type: join")
        /\ replies[c][2].frame.type = "ping"
        /\ replies[c][2].answer.type = "pong"

\* C17: a connection that presented a credential other than a good token of
\* an active user was closed with code 1008 and is all it ever was: never
\* accepted, never registered, no broadcast started by it or sent to it, no
\* frame of it answered; and every registered connection presented a good
\* token, so no user is online because of a refused one
RejectedNeverOpens ==
    /\ \A c \in Conns :
          locals[c].token \in Credentials \ {"valid"}
          => /\ pc[c] = "rejected"
             /\ transport[c] = "none"
             /\ ~\E i \in 1..Len(active_connections) :
                    InSeq(active_connections[i].conns, c)
             /\ jobs[c] = NoJob
             /\ log[c] = <<>>
             /\ \A a \in DOMAIN jobs :
                   jobs[a].phase # "none"
                   => c \notin jobs[a].sentTo \cup jobs[a].failed \cup jobs[a].stable
             /\ Len(replies[c]) = 1
             /\ replies[c][1].answer.type = "close"
             /\ replies[c][1].answer.code = 1008
    /\ \A i \in 1..Len(active_connections) :
          /\ active_connections[i].user \in Users
          /\ \A j \in 1..Len(active_connections[i].conns) :
                locals[active_connections[i].conns[j]].token = "valid"
    /\ online_users \subseteq Users

\* a device of u1 was refused with the token of a disabled user while another
\* device of u1 is connected, and u2's token was refused on a failed lookup
RejectedNeverOpensWitness ==
    /\ \E c, d \in Conns :
          /\ c # d
          /\ ConnUser(c) = ConnUser(d)
          /\ locals[c].token = "disabled"
          /\ pc[c] = "rejected"
          /\ pc[d] = "recv"
          /\ is_user_online(ConnUser(d))
    /\ \E c \in Conns : locals[c].token = "dberror" /\ pc[c] = "rejected"

\* C18: when the handler has broadcast a human message it creates the task
\* and is back at receive_text in the same step, with the task not yet run;
\* while the task has not written the reply and the handler is in no other
\* broadcast, a ping on that connection can be taken, and a ping is answered
\* with pong without touching any task
HandlerDoesNotWaitForBot ==
    /\ [][\A c \in Conns :
             (Len(tasks') = Len(tasks) + 1 /\ tasks'[Len(tasks')].h = c)
             => /\ pc'[c] = "recv"
                /\ tasks'[Len(tasks')].phase = "created"
                /\ tasks'[Len(tasks')].result = 0]_vars
    /\ [](\A t \in 1..Len(tasks) :
             (/\ tasks[t].phase \in {"created", "sleeping"}
              /\ tasks[t].h \in Conns
              /\ ~Running(jobs[tasks[t].h])
              /\ ReplyCount < MaxReplies)
             => ENABLED FramePing(tasks[t].h))
    /\ [][\A c \in Conns :
             (Answered(c) /\ LastAnswer(c).frame.type = "ping")
             => LastAnswer(c).answer = Pong /\ OnlyAnswers(c) /\ locals' = locals]_vars

\* a ping sent after the handler's own message was answered while the bot
\* reply to that message is not written yet
HandlerDoesNotWaitForBotWitness ==
    \E t \in 1..Len(tasks) :
        /\ tasks[t].h \in Conns
        /\ tasks[t].phase = "sleeping"
        /\ tasks[t].mid > 0
        /\ \A m \in 1..Len(messages) : messages[m].via = "human"
        /\ tasks[t].mid \in SeqSet(log[tasks[t].h])
        /\ \E i \in 1..Len(replies[tasks[t].h]) :
              /\ replies[tasks[t].h][i].answer = Pong
              /\ replies[tasks[t].h][i].seen = tasks[t].mid

\* C19: when a sweep has ended, should_bot_act was called for every active
\* bot of the sweep, whatever was raised for the bots before it, and every bot
\* found eligible went on to perform_random_activity
SweepVisitsEveryBot ==
    sweep.phase = "ended"
    => /\ \A i \in 1..Len(sweep.order) :
             sweep.order[i] \in sweep.evaluated \cup sweep.check_raised
       /\ sweep.eligible \subseteq sweep.performed \cup sweep.act_raised

\* C20: all finished calls of get_or_create_direct_conversation for the same
\* unordered pair of users returned the same conversation, and no two DIRECT
\* conversations have the same two active participants
DirectUnique ==
    /\ \A r, q \in Requests :
          (/\ calls[r].phase = "done"
           /\ calls[q].phase = "done"
           /\ {calls[r].user_id, calls[r].other_user_id}
                 = {calls[q].user_id, calls[q].other_user_id})
          => calls[r].result = calls[q].result
    /\ \A k, l \in DOMAIN conversations :
          (/\ conversations[k].type = "DIRECT"
           /\ conversations[l].type = "DIRECT"
           /\ ActiveIds(k) = ActiveIds(l))
          => k = l

\* a typing frame changes the typing state as a set: true adds the user once,
\* false removes the user, and every other conversation keeps its set
TypingAsSet ==
    \A c \in Conns, k \in Convs, is_typing \in BOOLEAN :
        FrameTyping(c, k, is_typing)
        => /\ get_typing_users(k)' = IF is_typing
                                     THEN get_typing_users(k) \cup {ConnUser(c)}
                                     ELSE get_typing_users(k) \ {ConnUser(c)}
           /\ \A l \in Convs \ {k} : get_typing_users(l)' = get_typing_users(l)

\* a typing event is sent to listed participants other than the signaling user
\* only, and once its broadcast has ended every connection of such a
\* participant that was registered and up throughout was sent it
TypingDelivered ==
    \A h \in Conns :
        (jobs[h].phase # "none" /\ jobs[h].ev.type = "typing")
        => /\ \A c \in jobs[h].sentTo :
                 ConnUser(c) # jobs[h].ev.user /\ InSeq(jobs[h].targets, ConnUser(c))
           /\ jobs[h].phase = "done"
                 => \A c \in jobs[h].stable :
                       (/\ ConnUser(c) # jobs[h].ev.user
                        /\ InSeq(jobs[h].targets, ConnUser(c))
                        /\ transport[c] = "up")
                       => c \in jobs[h].sentTo

\* C21: broadcast_typing_status treats the typing state as a set (true adds
\* the user, true twice keeps one membership, false removes the user or does
\* nothing, other conversations are untouched) and delivers the typing event
\* to every listed participant except the signaling user
TypingSetAndDelivery == []TypingDelivered /\ [][TypingAsSet]_vars

\* an ambient post writes one message of one bot and nothing else
AmbientWritesMessageOnly ==
    \A b \in BotUsers :
        GlobalChatPost(b)
        => /\ messages' = Append(messages, messages'[Len(messages')])
           /\ messages'[Len(messages')].sender_id = b
           /\ messages'[Len(messages')].conversation_id = BOT_CHAT_ID
           /\ activities' = activities
           /\ bots' = bots
           /\ \A x \in BotUsers : should_bot_act(x)' = should_bot_act(x)

\* C22: the ambient chat sweep can post for any bot, eligible or not, and a
\* post writes one message into the bot chat and leaves every bot's activity
\* log, counters, last_activity_at and should_bot_act result unchanged
AmbientOutsideRateLimit ==
    /\ [](\A b \in BotUsers : Len(messages) < MaxMsgs => ENABLED GlobalChatPost(b))
    /\ [][AmbientWritesMessageOnly]_vars

\* a bot that is not due has just posted into the bot chat, after its
\* scheduled activity
AmbientOutsideRateLimitWitness ==
    \E m \in 1..Len(messages) :
        /\ messages[m].via = "ambient"
        /\ messages[m].created_at = now
        /\ ~should_bot_act(messages[m].sender_id)
        /\ bots[messages[m].sender_id].last_activity_at # NoTime

\* the lowered, stripped text contains one of the words
HasAny(text, words) == \E word \in words : Contains(Strip(Lower(text)), word)

\* the bucket of a text: the first of greeting, thanks, question, general
\* (more than 3 words) that applies, else default
BucketOf(text) ==
    CASE HasAny(text, GreetingWords) -> "greeting"
      [] ~HasAny(text, GreetingWords) /\ HasAny(text, ThanksWords) -> "thanks"
      [] /\ ~HasAny(text, GreetingWords \cup ThanksWords)
         /\ HasAny(text, QuestionMarks) -> "question"
      [] /\ ~HasAny(text, GreetingWords \cup ThanksWords \cup QuestionMarks)
         /\ WordCount(Strip(text)) > 3 -> "general"
      [] OTHER -> "default"

\* C23: every (personality, bucket) pool is non-empty, and for every
\* personality and text _generate_message_response returns, without raising,
\* a template of that personality's pool for the bucket selected in the order
\* greeting, thanks, question, general, default
ResponseFromPool ==
    /\ \A personality \in Personalities, bucket \in Buckets :
          PoolSize(personality)[bucket] > 0
    /\ generated.response # NoResponse
          => /\ generated.response # ChoiceRaised
             /\ generated.response.personality =
                   (IF generated.personality \in Personalities
                    THEN generated.personality ELSE "friendly")
             /\ generated.response.bucket = BucketOf(generated.message_content)
             /\ generated.response.n
                   \in 1..PoolSize(generated.response.personality)[generated.response.bucket]

\* a text that greets, thanks and asks was answered from the greeting pool of
\* a personality other than the fallback
ResponseFromPoolWitness ==
    /\ generated.response \notin {NoResponse, ChoiceRaised}
    /\ generated.personality \in Personalities \ {"friendly"}
    /\ HasAny(generated.message_content, ThanksWords)
    /\ HasAny(generated.message_content, QuestionMarks)
    /\ generated.response.bucket = "greeting"

\* the rows of conversation k of active bot participants whose bot is active
\* and can message
CandidateRows(k) ==
    {i \in 1..Len(participants[k]) :
        /\ participants[k][i].is_active
        /\ IsBot(participants[k][i].user_id)
        /\ bots[participants[k][i].user_id].is_active
        /\ bots[participants[k][i].user_id].can_message}

\* a call for a human's message picks the first candidate, or returns None
\* at once when there is none
ImmediatePicksFirst ==
    \A k \in Convs, mid \in 1..Len(messages) :
        (CallImmediate(k, mid) /\ ~IsBot(messages[mid].sender_id))
        => /\ <<messages', activities', bots'>> = <<messages, activities, bots>>
           /\ IF CandidateRows(k) = {}
              THEN tasks'[1].phase = "returned" /\ tasks'[1].result = 0
              ELSE /\ tasks'[1].phase = "sleeping"
                   /\ \E i \in CandidateRows(k) :
                         /\ \A j \in CandidateRows(k) : i <= j
                         /\ tasks'[1].bot = participants[k][i].user_id

\* the call that picked bot b writes one message and one activity of b and
\* adds one to b's total_messages, and nothing else
ImmediateWritesOnce ==
    ImmFinish(1)
    => LET b == tasks[1].bot IN
       /\ Len(messages') = Len(messages) + 1
       /\ SubSeq(messages', 1, Len(messages)) = messages
       /\ messages'[Len(messages')].sender_id = b
       /\ messages'[Len(messages')].conversation_id = tasks[1].conv
       /\ Len(activities') = Len(activities) + 1
       /\ SubSeq(activities', 1, Len(activities)) = activities
       /\ activities'[Len(activities')].bot_id = b
       /\ activities'[Len(activities')].activity_type = "message"
       /\ bots' = [bots EXCEPT ![b].total_messages = @ + 1]
       /\ tasks'[1].result = Len(messages')

\* C24: trigger_immediate_bot_response for a human's message makes exactly
\* the first active bot participant that can message reply, with one Message,
\* one BotActivity and total_messages + 1 for that bot and no change to any
\* other bot; with no such bot it returns None and writes nothing
ImmediateOneReply == [][ImmediatePicksFirst /\ ImmediateWritesOnce]_vars

\* b1 answered a human's message immediately in k1, where b2 could have
\* answered as well
ImmediateOneReplyWitness ==
    \E m \in 1..Len(messages) :
        /\ messages[m].via = "immediate"
        /\ messages[m].sender_id = "b1"
        /\ messages[m].conversation_id = "k1"
        /\ ~IsBot(messages[messages[m].reply_to].sender_id)
        /\ bots["b1"].total_messages = 1
        /\ bots["b2"].can_message
        /\ bots["b2"].total_messages = 0

\* the messages b has yet to answer: not deleted, not sent by b, at most 24
\* hours old, in a conversation where b is an active participant, and with
\* no later message of b in that conversation
Unanswered(b) ==
    {i \in 1..Len(messages) :
        /\ ~messages[i].is_deleted
        /\ messages[i].sender_id # b
        /\ now - messages[i].created_at <= DayLen
        /\ IsActiveParticipant(messages[i].conversation_id, b)
        /\ \A j \in 1..Len(messages) :
              (/\ messages[j].sender_id = b
               /\ messages[j].conversation_id = messages[i].conversation_id)
              => ~Later(j, i)}

\* what a call of respond_to_messages(b) does when it is to reply exactly if
\* `due` holds: one message of b in the conversation of the most recent
\* unanswered message, or no change at all
RespondsExactlyWhen(b, due) ==
    Respond(b)
    => /\ respond'.result <=> due
       /\ respond'.result
             => /\ Len(messages') = Len(messages) + 1
                /\ SubSeq(messages', 1, Len(messages)) = messages
                /\ messages'[Len(messages')].sender_id = b
                /\ \E m \in Unanswered(b) :
                      /\ \A n \in Unanswered(b) : n = m \/ Later(m, n)
                      /\ messages'[Len(messages')].conversation_id
                            = messages[m].conversation_id
       /\ ~respond'.result
             => <<messages', activities', bots'>> = <<messages, activities, bots>>

\* between two scheduled replies of a bot in one conversation, somebody else
\* wrote there
NoSecondReply ==
    \A i, j \in 1..Len(messages) :
        (/\ i < j
         /\ messages[i].via = "scheduled"
         /\ messages[j].via = "scheduled"
         /\ messages[i].sender_id = messages[j].sender_id
         /\ messages[i].conversation_id = messages[j].conversation_id)
        => \E n \in (i + 1)..(j - 1) :
              /\ messages[n].conversation_id = messages[i].conversation_id
              /\ messages[n].sender_id # messages[i].sender_id

\* C25 as stated: respond_to_messages(b) replies exactly if b has an
\* unanswered message, whatever b's capabilities
RespondIffUnanswered ==
    /\ []NoSecondReply
    /\ [][\A b \in BotUsers : RespondsExactlyWhen(b, Unanswered(b) # {})]_vars

\* C25: for a bot with can_message, respond_to_messages(b) writes one reply
\* exactly if b has an unanswered message, into the conversation of the most
\* recent one, and otherwise returns False and changes nothing; a bot without
\* can_message never replies; a second call without a new inbound message
\* does not reply again in that conversation
RespondIffUnansweredAndCanMessage ==
    /\ []NoSecondReply
    /\ [][\A b \in BotUsers :
             RespondsExactlyWhen(b, bots[b].can_message /\ Unanswered(b) # {})]_vars

\* b2 had unanswered messages in both of its conversations and answered the
\* later one; the older one, in the other conversation, is still unanswered
RespondIffUnansweredAndCanMessageWitness ==
    /\ respond.result
    /\ respond.bot = "b2"
    /\ messages[Len(messages)].via = "scheduled"
    /\ messages[Len(messages)].sender_id = "b2"
    /\ \E n \in Unanswered("b2") :
          /\ n < messages[Len(messages)].reply_to
          /\ messages[n].conversation_id # messages[Len(messages)].conversation_id

\* C26: no reply of a bot, immediate or scheduled, answers a message whose
\* sender is a bot
NoReplyToBot ==
    \A m \in 1..Len(messages) :
        messages[m].via \in {"immediate", "scheduled"}
        => ~IsBot(messages[messages[m].reply_to].sender_id)

\* a disconnect of any connection leaves every task where it was, and a task
\* that is waiting for its executor call or for its broadcast can take its step
TaskIndependent ==
    /\ [](\A t \in 1..Len(tasks) :
            /\ (tasks[t].phase = "sleeping" /\ Len(messages) < MaxMsgs)
                  => ENABLED ImmFinish(t)
            /\ tasks[t].phase = "returned" => ENABLED TaskResume(t)
            /\ tasks[t].phase = "bcast" => ENABLED TaskSend(t))
    /\ [][\A c \in Conns : (ClientClose(c) \/ RecvDisconnect(c)) => tasks' = tasks]_vars

\* an exception caught inside the task changes no connection's registration,
\* transport or handler position
TaskRaiseIsolated ==
    [][\A t \in 1..MaxTasks :
          TaskRaise(t) => UNCHANGED <<active_connections, online_users, transport, pc>>]_vars

\* the reply of a task whose broadcast has ended is persisted and was sent to
\* every connection of an active participant of its conversation that was
\* registered and up throughout
TaskReplyDelivered ==
    \A t \in 1..Len(tasks) :
        (tasks[t].phase = "done" /\ tasks[t].result # 0)
        => /\ tasks[t].result \in 1..Len(messages)
           /\ messages[tasks[t].result].reply_to = tasks[t].mid
           /\ \A c \in jobs[TaskKey(t)].stable :
                 (/\ IsActiveParticipant(tasks[t].conv, ConnUser(c))
                  /\ transport[c] = "up")
                 => c \in jobs[TaskKey(t)].sentTo

\* C27: a started bot-response task runs on whatever happens to the connection
\* that triggered it: its reply is persisted and sent to every connection of a
\* participant that stayed registered and up, and an exception caught inside
\* the task closes or unregisters no connection
TaskOutlivesConnection ==
    /\ TaskIndependent
    /\ TaskRaiseIsolated
    /\ []TaskReplyDelivered

\* C28: every connection that is sent a bot's immediate reply belongs to an
\* active participant of the conversation the reply was written in
ReplyStaysInConversation ==
    \A t \in 1..Len(tasks) :
        (tasks[t].result # 0 /\ jobs[TaskKey(t)].phase # "none")
        => \A c \in jobs[TaskKey(t)].sentTo :
              IsActiveParticipant(messages[tasks[t].result].conversation_id, ConnUser(c))

\* the bot of the activity row written in this step, if one was written
Wrote(b) ==
    /\ Len(activities') = Len(activities) + 1
    /\ activities'[Len(activities')].bot_id = b

\* a run writes an activity for b only while should_bot_act(b) holds
WrittenWhileEligible ==
    [][\A b \in BotUsers : Wrote(b) => should_bot_act(b)]_vars

\* b's activities of today never exceed its cap, and no two of its activities
\* are less than activity_frequency minutes apart
RateLimitKept ==
    \A b \in BotUsers :
        /\ TodayActivities(b) <= bots[b].max_daily_activities
        /\ \A i, j \in 1..Len(activities) :
              (i < j /\ activities[i].bot_id = b /\ activities[j].bot_id = b)
              => activities[j].created_at - activities[i].created_at
                    >= bots[b].activity_frequency * 60

\* a run writes for a bot it has not written for before
OncePerRun ==
    [][\A b \in BotUsers :
          /\ (Wrote(b) /\ sweep' # sweep) => b \notin sweep.performed
          /\ (Wrote(b) /\ manual' # manual) => b \notin manual.performed]_vars

\* C29: the sweep and the manual trigger-all run, however interleaved, write
\* an activity only for an eligible bot, keep every bot within its daily cap
\* and its activity frequency, and write at most once per bot and run
RateLimitedRuns ==
    /\ WrittenWhileEligible
    /\ []RateLimitKept
    /\ OncePerRun

\* C30: no bot has written two replies to the same human message, whichever
\* of the immediate trigger and respond_to_messages wrote them
OneReplyPerMessage ==
    \A i, j \in 1..Len(messages) :
        (/\ i < j
         /\ messages[i].sender_id = messages[j].sender_id
         /\ IsBot(messages[i].sender_id)
         /\ messages[i].reply_to # 0
         /\ messages[i].reply_to = messages[j].reply_to)
        => IsBot(messages[messages[i].reply_to].sender_id)

====
